---------------------------- MODULE Spec2Model ----------------------------
(***************************************************************************)
(* A model of the fact-extraction and reasoning pipeline of the            *)
(* bridge-crossing agent (app/utils/reasoning.py, app/core/models.py,      *)
(* app/utils/wikipedia_client.py).                                         *)
(*                                                                         *)
(* Conventions.                                                            *)
(*  - A text is a sequence of characters, each character a string.  The    *)
(*    module is ASCII, so a Cyrillic letter is written "ru_<translit>"     *)
(*    (lower case) or "RU_<TRANSLIT>" (upper case): "ru_m" is the Cyrillic *)
(*    em, "m" the Latin one.  Message strings are transliterated.          *)
(*  - A float is modelled as an exact rational [n, d] in lowest terms.     *)
(*  - A call either returns or raises: Return(v) / Raise(exc, msg).        *)
(***************************************************************************)
EXTENDS Integers, Sequences, FiniteSets, TLC

VARIABLES
    call,       \* the function under call and its arguments
    result,     \* what the call returned or raised; NotCalled before it ran
    requests    \* the HTTP requests the call made, in order, with their responses

vars == <<call, result, requests>>

NotCalled == [kind |-> "not_called"]
Return(v) == [kind |-> "return", value |-> v]
Raise(e, m) == [kind |-> "raise", exc |-> e, msg |-> m]

(***************************************************************************)
(* Floats as rationals.                                                    *)
(***************************************************************************)
RECURSIVE GCD(_, _)
GCD(a, b) == IF b = 0 THEN a ELSE GCD(b, a % b)

Abs(x) == IF x < 0 THEN -x ELSE x

Rat(n, d) ==
    LET s == IF d < 0 THEN -1 ELSE 1
        g == GCD(Abs(n), Abs(d))
    IN  [n |-> (s * n) \div g, d |-> (s * d) \div g]

\* The order of an/ad and bn/bd (-1, 0, 1), by integer parts and then, Euclid's
\* way, the reciprocals of the remainders: no product is formed, so the
\* comparison cannot leave TLC's integer range.
RECURSIVE RatCmp(_, _, _, _)
RatCmp(an, ad, bn, bd) ==
    LET qa == an \div ad
        qb == bn \div bd
        ra == an % ad
        rb == bn % bd
    IN  IF qa # qb THEN (IF qa < qb THEN -1 ELSE 1)
        ELSE IF ra = 0 \/ rb = 0
             THEN (IF ra = rb THEN 0 ELSE IF ra = 0 THEN -1 ELSE 1)
             ELSE RatCmp(bd, rb, ad, ra)

RatLt(a, b) == RatCmp(a.n, a.d, b.n, b.d) < 0
RatLe(a, b) == RatCmp(a.n, a.d, b.n, b.d) <= 0
RatDiv(a, b) == Rat(a.n * b.d, a.d * b.n)
RatSub(a, b) == Rat(a.n * b.d - b.n * a.d, a.d * b.d)
RatInt(k) == [n |-> k, d |-> 1]

RECURSIVE Pow10(_)
Pow10(k) == IF k = 0 THEN 1 ELSE 10 * Pow10(k - 1)

(***************************************************************************)
(* Characters and re.IGNORECASE folding.                                   *)
(***************************************************************************)
Digits == <<"0", "1", "2", "3", "4", "5", "6", "7", "8", "9">>

IsDigit(c) == \E k \in 1..10 : Digits[k] = c

DigitValue(c) == (CHOOSE k \in 1..10 : Digits[k] = c) - 1

IsSpace(c) == c \in {" ", "\t", "\n"}

CasePairs ==
    { <<"RU_M", "ru_m">>, <<"RU_E", "ru_e">>, <<"RU_T", "ru_t">>, <<"RU_R", "ru_r">>,
      <<"RU_K", "ru_k">>, <<"RU_CH", "ru_ch">>, <<"RU_V", "ru_v">>, <<"RU_A", "ru_a">>,
      <<"RU_S", "ru_s">>, <<"K", "k">>, <<"M", "m">>, <<"H", "h">>, <<"C", "c">>,
      <<"E", "e">>, <<"T", "t">>, <<"A", "a">> }

UpperToLower == [c \in {p[1] : p \in CasePairs} |-> (CHOOSE p \in CasePairs : p[1] = c)[2]]

LowerToUpper == [c \in {p[2] : p \in CasePairs} |-> (CHOOSE p \in CasePairs : p[2] = c)[1]]

Lower(c) == IF c \in DOMAIN UpperToLower THEN UpperToLower[c] ELSE c

Upper(c) == IF c \in DOMAIN LowerToUpper THEN LowerToUpper[c] ELSE c

(***************************************************************************)
(* The regular expressions of reasoning.py, matched as re does: leftmost,  *)
(* greedy, backtracking, alternatives tried in order.  Both patterns are   *)
(*     (\d+(?:[.,]\d+)?)  \s*  (?: alt1 | alt2 | ... )                       *)
(* and differ in the alternatives.  An alternative is a sequence of items: *)
(* a literal character, or WS for \s*.                                     *)
(***************************************************************************)
WS == "\\s*"

RECURSIVE DigitRun(_, _)
DigitRun(t, pos) ==
    IF pos <= Len(t) /\ IsDigit(t[pos]) THEN 1 + DigitRun(t, pos + 1) ELSE 0

RECURSIVE SpaceRun(_, _)
SpaceRun(t, pos) ==
    IF pos <= Len(t) /\ IsSpace(t[pos]) THEN 1 + SpaceRun(t, pos + 1) ELSE 0

\* (?:[.,]\d+)? tried at pos: the ends (exclusive) it can stop at, longest first.
FracEnds(t, pos) ==
    IF pos <= Len(t) /\ t[pos] \in {".", ","}
    THEN LET r == DigitRun(t, pos + 1) IN [k \in 1..r |-> pos + 1 + (r - k + 1)]
    ELSE <<>>

\* \d+(?:[.,]\d+)? started at i with n digits, then n-1, ...: the ends the
\* group can stop at, in the order backtracking tries them.
RECURSIVE NumberEndsFrom(_, _, _)
NumberEndsFrom(t, i, n) ==
    IF n = 0 THEN <<>>
    ELSE FracEnds(t, i + n) \o <<i + n>> \o NumberEndsFrom(t, i, n - 1)

NumberEnds(t, i) == NumberEndsFrom(t, i, DigitRun(t, i))

\* The items of one alternative from item k on, at pos: the end of the match
\* (exclusive), or 0 when there is none.
RECURSIVE MatchItems(_, _, _, _), MatchWs(_, _, _, _, _)
MatchItems(items, k, t, pos) ==
    IF k > Len(items) THEN pos
    ELSE IF items[k] = WS THEN MatchWs(items, k, t, pos, SpaceRun(t, pos))
    ELSE IF pos <= Len(t) /\ Lower(t[pos]) = Lower(items[k])
         THEN MatchItems(items, k + 1, t, pos + 1)
         ELSE 0

MatchWs(items, k, t, pos, n) ==
    LET r == MatchItems(items, k + 1, t, pos + n)
    IN  IF r # 0 THEN r
        ELSE IF n = 0 THEN 0 ELSE MatchWs(items, k, t, pos, n - 1)

\* (?: alt_a | alt_a+1 | ...) at pos: the first alternative that matches.
RECURSIVE MatchAlt(_, _, _, _)
MatchAlt(alts, a, t, pos) ==
    IF a > Len(alts) THEN 0
    ELSE LET r == MatchItems(alts[a], 1, t, pos)
         IN  IF r # 0 THEN r ELSE MatchAlt(alts, a + 1, t, pos)

\* \s*(?:...) at pos, \s* greedy: n spaces first, then fewer.
RECURSIVE MatchTail(_, _, _, _)
MatchTail(alts, t, pos, n) ==
    LET r == MatchAlt(alts, 1, t, pos + n)
    IN  IF r # 0 THEN r
        ELSE IF n = 0 THEN 0 ELSE MatchTail(alts, t, pos, n - 1)

\* The whole pattern at i, trying the number's ends ends[c..]: the end of group 1
\* and of the match, or stop = 0 when the pattern does not match at i.
RECURSIVE MatchFrom(_, _, _, _)
MatchFrom(alts, t, ends, c) ==
    IF c > Len(ends) THEN [group_end |-> 0, stop |-> 0]
    ELSE LET r == MatchTail(alts, t, ends[c], SpaceRun(t, ends[c]))
         IN  IF r # 0 THEN [group_end |-> ends[c], stop |-> r]
             ELSE MatchFrom(alts, t, ends, c + 1)

MatchAt(alts, t, i) == MatchFrom(alts, t, NumberEnds(t, i), 1)

\* re.findall: group 1 of every non-overlapping match, scanning left to right.
RECURSIVE FindAll(_, _, _)
FindAll(alts, t, pos) ==
    IF pos > Len(t) THEN <<>>
    ELSE LET m == MatchAt(alts, t, pos)
         IN  IF m.stop # 0
             THEN <<SubSeq(t, pos, m.group_end - 1)>> \o FindAll(alts, t, m.stop)
             ELSE FindAll(alts, t, pos + 1)

(***************************************************************************)
(* float(item.replace(",", ".")) and max(values).                          *)
(***************************************************************************)
ReplaceComma(item) == [k \in DOMAIN item |-> IF item[k] = "," THEN "." ELSE item[k]]

RECURSIVE DigitsValue(_)
DigitsValue(s) ==
    IF s = <<>> THEN 0
    ELSE 10 * DigitsValue(SubSeq(s, 1, Len(s) - 1)) + DigitValue(s[Len(s)])

\* float() of digits, optionally a point and digits.
Float(s) ==
    LET dots == {k \in DOMAIN s : s[k] = "."}
    IN  IF dots = {} THEN RatInt(DigitsValue(s))
        ELSE LET p == CHOOSE k \in dots : TRUE
                 f == Len(s) - p
             IN  Rat(DigitsValue(SubSeq(s, 1, p - 1)) * Pow10(f)
                       + DigitsValue(SubSeq(s, p + 1, Len(s))),
                     Pow10(f))

RECURSIVE MinFrom(_, _, _)
MinFrom(values, k, best) ==
    IF k > Len(values) THEN best
    ELSE MinFrom(values, k + 1, IF RatLt(values[k], best) THEN values[k] ELSE best)

\* max(values) written as min(values).
max_as_min(values) == MinFrom(values, 2, values[1])

RECURSIVE MaxFrom(_, _, _)
MaxFrom(values, k, best) ==
    IF k > Len(values) THEN best
    ELSE MaxFrom(values, k + 1, IF RatLt(best, values[k]) THEN values[k] ELSE best)

max(values) == MaxFrom(values, 2, values[1])

(***************************************************************************)
(* _parse_length_meters                                                    *)
(***************************************************************************)
\* The pattern with the Latin spellings added: (?:м|метр|m|meter).
LengthUnits_with_latin ==
    << <<"ru_m">>, <<"ru_m", "ru_e", "ru_t", "ru_r">>,
       <<"m">>, <<"m", "e", "t", "e", "r">> >>

\* (?:м|метр)
LengthUnits == << <<"ru_m">>, <<"ru_m", "ru_e", "ru_t", "ru_r">> >>

LengthError == "Ne udalos izvlech dlinu mosta iz teksta"

_parse_length_meters(t) ==
    LET matches == FindAll(LengthUnits, t, 1)
    IN  IF matches = <<>> THEN Raise("ValueError", LengthError)
        ELSE Return(max([k \in DOMAIN matches |-> Float(ReplaceComma(matches[k]))]))

(***************************************************************************)
(* _parse_speed_kmh                                                        *)
(***************************************************************************)
\* The pattern with the km/h alternative lost: (?:км\s*/\s*ч|км\s*в\s*час|kmh).
SpeedUnits_without_km_h ==
    << <<"ru_k", "ru_m", WS, "/", WS, "ru_ch">>,
       <<"ru_k", "ru_m", WS, "ru_v", WS, "ru_ch", "ru_a", "ru_s">>,
       <<"k", "m", "h">> >>

\* (?:км\s*/\s*ч|км\s*в\s*час|km/h|kmh)
SpeedUnits ==
    << <<"ru_k", "ru_m", WS, "/", WS, "ru_ch">>,
       <<"ru_k", "ru_m", WS, "ru_v", WS, "ru_ch", "ru_a", "ru_s">>,
       <<"k", "m", "/", "h">>,
       <<"k", "m", "h">> >>

SpeedError == "Ne udalos izvlech skorost geparda iz teksta"

_parse_speed_kmh(t) ==
    LET matches == FindAll(SpeedUnits, t, 1)
    IN  IF matches = <<>> THEN Raise("ValueError", SpeedError)
        ELSE Return(max([k \in DOMAIN matches |-> Float(ReplaceComma(matches[k]))]))

(***************************************************************************)
(* Input texts: the texts of tests/test_reasoning.py, and every            *)
(* concatenation of at most MaxTokens tokens.  The number tokens are       *)
(* short and start with 1 where they have two digits, so that no number    *)
(* of MaxTokens + 1 tokens leaves TLC's 32-bit integers.                   *)
(***************************************************************************)
MaxTokens == 3

RECURSIVE Concats(_, _)
Concats(tokens, n) ==
    IF n = 0 THEN {<<>>}
    ELSE LET shorter == Concats(tokens, n - 1)
         IN  shorter \cup {p \o tok : p \in shorter, tok \in tokens}

RuLengthSentence ==
    <<"RU_M", "ru_o", "ru_s", "ru_t", " ", "ru_d", "ru_l", "ru_i", "ru_n", "ru_o",
      "ru_j", " ", "3", "4", "5", ",", "5", " ", "ru_m", " ", "ru_p", "ru_o", "ru_s",
      "ru_t", "ru_r", "ru_o", "ru_e", "ru_n", " ", "ru_r", "ru_ya", "ru_d", "ru_o",
      "ru_m", " ", "ru_s", " ", "1", "2", "3", " ", "ru_m", " ", "ru_p", "ru_e",
      "ru_r", "ru_e", "ru_p", "ru_r", "ru_a", "ru_v", "ru_o", "ru_j", ".">>

EnLengthSentence ==
    <<"B", "r", "i", "d", "g", "e", " ", "i", "s", " ", "3", "4", "5", ".", "5", " ",
      "m", " ", "l", "o", "n", "g", ",", " ", "b", "u", "i", "l", "t", " ", "n", "e",
      "a", "r", " ", "a", " ", "1", "2", "3", " ", "m", " ", "c", "r", "o", "s", "s",
      "i", "n", "g", ".">>

NoLengthSentence ==
    <<"RU_V", " ", "ru_t", "ru_e", "ru_k", "ru_s", "ru_t", "ru_e", " ", "ru_n",
      "ru_e", "ru_t", " ", "ru_d", "ru_a", "ru_n", "ru_n", "ru_y", "ru_h", " ",
      "ru_o", " ", "ru_d", "ru_l", "ru_i", "ru_n", "ru_e", " ", "ru_m", "ru_o",
      "ru_s", "ru_t", "ru_a", ".">>

LengthTokens ==
    { <<"1">>, <<"1", "2">>, <<"1", ",", "5">>, <<"1", "2", " ", "ru_m">>,
      <<".">>, <<" ">>,
      <<"ru_m">>, <<"RU_M">>, <<"ru_m", "ru_e", "ru_t", "ru_r">>,
      <<"m">>, <<"m", "e", "t", "e", "r">>,
      <<"ru_m", "ru_i", "ru_n", "ru_u", "ru_t">>, <<"x">> }

LengthTexts ==
    Concats(LengthTokens, MaxTokens)
        \cup {RuLengthSentence, EnLengthSentence, NoLengthSentence}

RuEnSpeedSentence ==
    <<"RU_G", "ru_e", "ru_p", "ru_a", "ru_r", "ru_d", " ", "ru_r", "ru_a", "ru_z",
      "ru_v", "ru_i", "ru_v", "ru_a", "ru_e", "ru_t", " ", "ru_s", "ru_k", "ru_o",
      "ru_r", "ru_o", "ru_s", "ru_t", "ru_soft", " ", "ru_d", "ru_o", " ", "1", "0",
      "0", " ", "ru_k", "ru_m", "/", "ru_ch", ",", " ", "ru_a", " ", "ru_i", "ru_n",
      "ru_o", "ru_g", "ru_d", "ru_a", " ", "9", "5", " ", "k", "m", "/", "h", ".">>

NoSpeedSentence ==
    <<"RU_Z", "ru_d", "ru_e", "ru_s", "ru_soft", " ", "ru_n", "ru_e", "ru_t", " ",
      "ru_u", "ru_p", "ru_o", "ru_m", "ru_i", "ru_n", "ru_a", "ru_n", "ru_i",
      "ru_ya", " ", "ru_s", "ru_k", "ru_o", "ru_r", "ru_o", "ru_s", "ru_t", "ru_i",
      ".">>

SpeedTokens ==
    { <<"1", "0">>, <<"9">>, <<"1", ",", "5">>, <<"9", " ", "k", "m", "/", "h">>,
      <<" ">>,
      <<"ru_k", "ru_m", "/", "ru_ch">>,
      <<"ru_k", "ru_m", " ", "/", " ", "ru_ch">>,
      <<"RU_K", "RU_M", "/", "RU_CH">>,
      <<"ru_k", "ru_m", " ", "ru_v", " ", "ru_ch", "ru_a", "ru_s">>,
      <<"k", "m", "/", "h">>, <<"k", "m", " ", "/", " ", "h">>,
      <<"K", "M", "/", "H">>, <<"k", "m", "h">>, <<"x">> }

SpeedTexts ==
    Concats(SpeedTokens, MaxTokens) \cup {RuEnSpeedSentence, NoSpeedSentence}

(***************************************************************************)
(* The parsers as state machines: a text is drawn, the parser runs on it.  *)
(***************************************************************************)
InitLength ==
    /\ call \in {[fn |-> "_parse_length_meters", text |-> t] : t \in LengthTexts}
    /\ result = NotCalled
    /\ requests = <<>>

ParseLength ==
    /\ call.fn = "_parse_length_meters"
    /\ result = NotCalled
    /\ result' = _parse_length_meters(call.text)
    /\ UNCHANGED <<call, requests>>

SpecLength == InitLength /\ [][ParseLength]_vars

InitSpeed ==
    /\ call \in {[fn |-> "_parse_speed_kmh", text |-> t] : t \in SpeedTexts}
    /\ result = NotCalled
    /\ requests = <<>>

ParseSpeed ==
    /\ call.fn = "_parse_speed_kmh"
    /\ result = NotCalled
    /\ result' = _parse_speed_kmh(call.text)
    /\ UNCHANGED <<call, requests>>

SpecSpeed == InitSpeed /\ [][ParseSpeed]_vars

(***************************************************************************)
(* kmh_to_ms, AnimalSpeed.from_kmh and format_seconds (app/core/models.py). *)
(* None is Python's None.                                                  *)
(***************************************************************************)
None == [kind |-> "None"]

\* speed_km_h / 3.6 written speed_km_h * 3.6.
kmh_to_ms_multiplied(speed_km_h) == RatDiv(speed_km_h, Rat(10, 36))

kmh_to_ms(speed_km_h) == RatDiv(speed_km_h, Rat(36, 10))

BridgeInfo(name, length_meters, source) ==
    [name |-> name, length_meters |-> length_meters, source |-> source]

AnimalSpeed(name, speed_m_s, source, speed_km_h) ==
    [name |-> name, speed_m_s |-> speed_m_s, source |-> source,
     speed_km_h |-> speed_km_h]

from_kmh(name, speed_km_h, source) ==
    AnimalSpeed(name, kmh_to_ms(speed_km_h), source, speed_km_h)

\* str(k) of an integer k >= 0.
RECURSIVE IntToStr(_)
IntToStr(k) ==
    IF k < 10 THEN Digits[k + 1] ELSE IntToStr(k \div 10) \o Digits[(k % 10) + 1]

\* x * 10 rounded to the nearest integer, a tie to the even one, for x >= 0:
\* the digits "{x:.1f}" shows.  A float is a dyadic rational, and this is the
\* correctly rounded conversion Python performs on its exact value.
RoundedTenths(x) ==
    LET q == (x.n * 10) \div x.d
        twice == 2 * ((x.n * 10) % x.d)
    IN  IF twice > x.d \/ (twice = x.d /\ q % 2 = 1) THEN q + 1 ELSE q

\* f"{x:.1f}"
Format1(x) ==
    LET neg == x.n < 0
        t == RoundedTenths(IF neg THEN [n |-> -x.n, d |-> x.d] ELSE x)
    IN  (IF neg THEN "-" ELSE "") \o IntToStr(t \div 10) \o "." \o IntToStr(t % 10)

\* seconds // 60 as an int
FloorDiv60(seconds) == seconds.n \div (60 * seconds.d)

\* The remainder shown only from 0.1 on, compared as "remainder < 1".
format_seconds_threshold_one(seconds) ==
    IF RatLt(seconds, RatInt(60)) THEN Format1(seconds) \o " sekund"
    ELSE LET minutes == FloorDiv60(seconds)
             remainder == RatSub(seconds, RatInt(minutes * 60))
         IN  IF RatLt(remainder, RatInt(1)) THEN IntToStr(minutes) \o " minut"
             ELSE IntToStr(minutes) \o " minut " \o Format1(remainder) \o " sekund"

format_seconds(seconds) ==
    IF RatLt(seconds, RatInt(60)) THEN Format1(seconds) \o " sekund"
    ELSE LET minutes == FloorDiv60(seconds)
             remainder == RatSub(seconds, RatInt(minutes * 60))
         IN  IF RatLt(remainder, Rat(1, 10)) THEN IntToStr(minutes) \o " minut"
             ELSE IntToStr(minutes) \o " minut " \o Format1(remainder) \o " sekund"

(***************************************************************************)
(* format_seconds as a state machine.  The inputs are the multiples of     *)
(* 1/32 s up to MaxTicks/32 s, which floats hold exactly, so that the      *)
(* subtraction, the comparison with 0.1 and the rounding of the model are  *)
(* the float ones; and the three values of the test, none of which sits    *)
(* within float error of a branch or of a rounding tie.                    *)
(***************************************************************************)
MaxTicks == 4160

SecondsInputs ==
    {Rat(k, 32) : k \in 0..MaxTicks} \cup {Rat(4512, 100), RatInt(120), Rat(1254, 10)}

InitFormat ==
    /\ call \in {[fn |-> "format_seconds", seconds |-> x] : x \in SecondsInputs}
    /\ result = NotCalled
    /\ requests = <<>>

FormatSeconds ==
    /\ call.fn = "format_seconds"
    /\ result = NotCalled
    /\ result' = Return(format_seconds(call.seconds))
    /\ UNCHANGED <<call, requests>>

SpecFormat == InitFormat /\ [][FormatSeconds]_vars

(***************************************************************************)
(* estimate_crossing_time                                                  *)
(***************************************************************************)
ReasoningStep(description, data) == [description |-> description, data |-> data]

SpeedNotPositive == "Skorost zhivotnogo dolzhna byt polozhitelnoj"

\* bridge.length_meters / animal.speed_m_s written with "//".
time_floor_division(bridge, animal) ==
    RatInt((bridge.length_meters.n * animal.speed_m_s.d)
               \div (bridge.length_meters.d * animal.speed_m_s.n))

time_of(bridge, animal) == RatDiv(bridge.length_meters, animal.speed_m_s)

\* The guard "speed_m_s <= 0" written "speed_m_s < 0".
speed_rejected_negative_only(animal) == RatLt(animal.speed_m_s, RatInt(0))

speed_rejected(animal) == RatLe(animal.speed_m_s, RatInt(0))

estimate_crossing_time(bridge, animal) ==
    IF speed_rejected(animal) THEN Raise("ValueError", SpeedNotPositive)
    ELSE IF animal.speed_m_s.n = 0
    THEN Raise("ZeroDivisionError", "float division by zero")
    ELSE LET time_seconds == time_of(bridge, animal)
             steps ==
                 << ReasoningStep("Poluchena dlina mosta",
                        [name |-> bridge.name, length_meters |-> bridge.length_meters]),
                    ReasoningStep("Poluchena skorost zhivotnogo",
                        [name |-> animal.name, speed_m_s |-> animal.speed_m_s,
                         speed_km_h |-> animal.speed_km_h]),
                    ReasoningStep("Rasschitano vremya peresecheniya",
                        [time_seconds |-> time_seconds]) >>
         IN  Return([bridge |-> bridge, animal |-> animal,
                     time_seconds |-> time_seconds,
                     time_human_readable |-> format_seconds(time_seconds),
                     steps |-> steps])

(***************************************************************************)
(* estimate_crossing_time as a state machine: a bridge and an animal are   *)
(* drawn, lengths in steps of 50 m, speeds in steps of 5 m/s from -10 m/s, *)
(* and the facts of the tests and the two fallback facts.                  *)
(***************************************************************************)
MaxLengthSteps == 20
MaxSpeedSteps == 8

Bridges ==
    {BridgeInfo("Mock Bridge", RatInt(50 * k), "mock://bridge") : k \in 0..MaxLengthSteps}
        \cup {BridgeInfo("Any Bridge", RatInt(100), "mock://bridge"),
              BridgeInfo("Bolshoj Kamennyj most (fallback)", RatInt(487), "fallback:boom")}

Animals ==
    {AnimalSpeed("Mock Cheetah", RatInt(5 * k - 10), "mock://cheetah", None) :
            k \in 0..MaxSpeedSteps}
        \cup {AnimalSpeed("Slow Animal", RatInt(0), "mock://animal", None),
              from_kmh("Gepard (fallback)", RatInt(90), "fallback:network down"),
              from_kmh("Cheetah (EN)", RatInt(108), "https://en.wikipedia.org/?curid=100")}

InitEstimate ==
    /\ call \in {[fn |-> "estimate_crossing_time", bridge |-> b, animal |-> a] :
                    b \in Bridges, a \in Animals}
    /\ result = NotCalled
    /\ requests = <<>>

EstimateCrossingTime ==
    /\ call.fn = "estimate_crossing_time"
    /\ result = NotCalled
    /\ result' = estimate_crossing_time(call.bridge, call.animal)
    /\ UNCHANGED <<call, requests>>

SpecEstimate == InitEstimate /\ [][EstimateCrossingTime]_vars

(***************************************************************************)
(* WikipediaClient (app/utils/wikipedia_client.py).  A client is its       *)
(* base_url, kept as the part before "/w/" (origin) and the rest (path).   *)
(* An HTTP response is what requests.get and raise_for_status make of the  *)
(* round trip: kind "ok" with the decoded JSON, or a failure kind, each a  *)
(* requests.exceptions.RequestException.                                   *)
(***************************************************************************)
WikipediaClient(origin) == [origin |-> origin, path |-> "/w/api.php"]

base_url(client) == client.origin \o client.path

RuWiki == WikipediaClient("https://ru.wikipedia.org")
EnWiki == WikipediaClient("https://en.wikipedia.org")

FailureKinds == {"timeout", "http_error"}

SearchRequest(client, title, resp) ==
    [base_url |-> base_url(client), action |-> "search", srsearch |-> title,
     resp |-> resp]

SummaryRequest(client, page_id, intro_only, resp) ==
    [base_url |-> base_url(client), action |-> "extracts", pageids |-> page_id,
     exintro |-> intro_only, resp |-> resp]

\* The failure swallowed: "except RequestException: return None".
search_page_absent_on_failure(resp) ==
    IF resp.kind # "ok" THEN Return(None)
    ELSE IF resp.search = <<>> THEN Return(None)
    ELSE Return([page_id |-> resp.search[1].pageid, title |-> resp.search[1].title])

search_page(resp) ==
    IF resp.kind # "ok" THEN Raise("RuntimeError", "Failed to search Wikipedia")
    ELSE IF resp.search = <<>> THEN Return(None)
    ELSE Return([page_id |-> resp.search[1].pageid, title |-> resp.search[1].title])

get_page_summary(page_id, resp) ==
    IF resp.kind # "ok" THEN Raise("RuntimeError", "Failed to fetch page summary")
    ELSE IF resp.page = None
    THEN Raise("LookupError", "Wikipedia page " \o IntToStr(page_id) \o " not found")
    ELSE Return([page_id |-> page_id, title |-> resp.page.title,
                 extract |-> resp.page.extract])

(***************************************************************************)
(* The resolvers (app/utils/reasoning.py).  net is what the network        *)
(* answers to each request the resolver can make: net.s1, net.s2, net.s3   *)
(* to the searches in the order they are issued, net.intro and net.full to *)
(* the two summary fetches.  A resolver's try body yields its outcome and  *)
(* the requests it made.                                                   *)
(***************************************************************************)
\* api_base.split("/w/")[0] is the origin.
_build_page_url(page_id, api_base) == api_base.origin \o "/?curid=" \o IntToStr(page_id)

\* The classes "except Exception" catches.
ExceptionClasses == {"RuntimeError", "LookupError", "ValueError", "ZeroDivisionError"}

\* "except Exception" narrowed to "except (LookupError, ValueError)".
caught_lookup_and_value_only(outcome) ==
    outcome.kind = "raise" /\ outcome.exc \in {"LookupError", "ValueError"}

caught(outcome) == outcome.kind = "raise" /\ outcome.exc \in ExceptionClasses

\* The handler of lines 45-47 lost: the first parse's outcome stands.
retry_on_value_error_never(first, req1, retried) ==
    [outcome |-> first, requests |-> req1]

\* "try: <parse> except ValueError: <full-body fetch and parse>" (lines 43-47
\* and 75-79): first is what the parse of the intro made, retried what the
\* handler makes.
retry_on_value_error(first, req1, retried) ==
    IF first.kind = "raise" /\ first.exc = "ValueError" THEN retried
    ELSE [outcome |-> first, requests |-> req1]

\* Lines 46-47: the full-body summary and the parse again.
bridge_full_parse(client, page_id, net, req1) ==
    LET full == get_page_summary(page_id, net.full)
        req2 == req1 \o <<SummaryRequest(client, page_id, FALSE, net.full)>>
    IN  IF full.kind = "raise" THEN [outcome |-> full, requests |-> req2]
        ELSE [outcome |-> _parse_length_meters(full.value.extract), requests |-> req2]

\* Lines 42-47: the intro summary, the parse, and on ValueError the full-body
\* summary and the parse again.
bridge_fetch_and_parse(client, page_id, net) ==
    LET intro == get_page_summary(page_id, net.intro)
        req1 == <<SummaryRequest(client, page_id, TRUE, net.intro)>>
    IN  IF intro.kind = "raise" THEN [outcome |-> intro, requests |-> req1]
        ELSE retry_on_value_error(_parse_length_meters(intro.value.extract), req1,
                                  bridge_full_parse(client, page_id, net, req1))

\* Lines 78-79.
animal_full_parse(client, page_id, net, req1) ==
    LET full == get_page_summary(page_id, net.full)
        req2 == req1 \o <<SummaryRequest(client, page_id, FALSE, net.full)>>
    IN  IF full.kind = "raise" THEN [outcome |-> full, requests |-> req2]
        ELSE [outcome |-> _parse_speed_kmh(full.value.extract), requests |-> req2]

\* Lines 74-79: the same for the speed, on the effective client.
animal_fetch_and_parse(client, page_id, net) ==
    LET intro == get_page_summary(page_id, net.intro)
        req1 == <<SummaryRequest(client, page_id, TRUE, net.intro)>>
    IN  IF intro.kind = "raise" THEN [outcome |-> intro, requests |-> req1]
        ELSE retry_on_value_error(_parse_speed_kmh(intro.value.extract), req1,
                                  animal_full_parse(client, page_id, net, req1))

BridgeQuery == "Bolshoj Kamennyj most"

BridgeNotFound == "Statya 'Bolshoj Kamennyj most' ne najdena"

\* Lines 48-52: the fact returned once the length is parsed; an exception of
\* the fetches or parses passes through.
bridge_fact(search, client, req, parsed) ==
    [outcome |->
         IF parsed.outcome.kind = "raise" THEN parsed.outcome
         ELSE Return(BridgeInfo(search.title, parsed.outcome.value,
                                _build_page_url(search.page_id, client))),
     requests |-> req \o parsed.requests]

\* Lines 39-52: the try body.
bridge_try(client, net) ==
    LET search == search_page(net.s1)
        req == <<SearchRequest(client, BridgeQuery, net.s1)>>
    IN  IF search.kind = "raise" THEN [outcome |-> search, requests |-> req]
        ELSE IF search.value = None
        THEN [outcome |-> Raise("LookupError", BridgeNotFound), requests |-> req]
        ELSE bridge_fact(search.value, client, req,
                         bridge_fetch_and_parse(client, search.value.page_id, net))

\* The handler with source=f"{exc}": the "fallback:" prefix lost.
bridge_except_unprefixed(try) ==
    [outcome |->
         IF caught(try.outcome)
         THEN Return(BridgeInfo("Bolshoj Kamennyj most (fallback)", RatInt(487),
                                try.outcome.msg))
         ELSE try.outcome,
     requests |-> try.requests]

\* Lines 53-59: the handler, given what the try body made.
bridge_except(try) ==
    [outcome |->
         IF caught(try.outcome)
         THEN Return(BridgeInfo("Bolshoj Kamennyj most (fallback)", RatInt(487),
                                "fallback:" \o try.outcome.msg))
         ELSE try.outcome,
     requests |-> try.requests]

get_bridge_info_big_stone_bridge(client, net) == bridge_except(bridge_try(client, net))

RECURSIVE Str(_)
Str(chars) == IF chars = <<>> THEN "" ELSE chars[1] \o Str(Tail(chars))

\* str.capitalize(): the first character upper case, the rest lower case.
capitalize(name) ==
    [k \in DOMAIN name |-> IF k = 1 THEN Upper(name[k]) ELSE Lower(name[k])]

AnimalNotFound(animal_name) == "Statya pro '" \o Str(animal_name) \o "' ne najdena"

\* Lines 65-70 with "effective_client = fallback" lost.
effective_client_stays_primary(client, fallback, search) == client

\* effective_client after the search on the English client: lines 65-70.
effective_client(client, fallback, search) ==
    IF search.kind = "return" /\ search.value # None THEN fallback ELSE client

\* The test of line 66 lost: the English search is made for every client.
is_english_never(client) == FALSE

\* client.base_url.startswith("https://en.wikipedia.org")
is_english(client) == client.origin = "https://en.wikipedia.org"

\* Lines 64-72 with a raising search taken for an absent page: the next search
\* of the chain is issued after it.
animal_search_errors_as_absent(client, animal_name, net) ==
    LET first == search_page_absent_on_failure(net.s1)
        req1 == <<SearchRequest(client, Str(animal_name), net.s1)>>
        again == first.value = None
        second == IF again THEN search_page_absent_on_failure(net.s2) ELSE first
        req2 == IF again
                THEN req1 \o <<SearchRequest(client, Str(capitalize(animal_name)), net.s2)>>
                ELSE req1
        more == second.value = None /\ ~is_english(client)
        third == IF more THEN search_page_absent_on_failure(net.s3) ELSE second
        req3 == IF more
                THEN req2 \o <<SearchRequest(EnWiki, Str(capitalize(animal_name)), net.s3)>>
                ELSE req2
    IN  IF third.value = None
        THEN [outcome |-> Raise("LookupError", AnimalNotFound(animal_name)),
              effective |-> client, requests |-> req3]
        ELSE [outcome |-> third,
              effective |-> IF more THEN EnWiki ELSE client,
              requests |-> req3]

\* Lines 64-72: the searches.  Yields the hit (or the error), the client that
\* serves the summary fetches, and the search requests made.
animal_search(client, animal_name, net) ==
    LET first == search_page(net.s1)
        req1 == <<SearchRequest(client, Str(animal_name), net.s1)>>
    IN  IF first.kind = "raise"
        THEN [outcome |-> first, effective |-> client, requests |-> req1]
        ELSE LET again == first.value = None
                 second == IF again THEN search_page(net.s2) ELSE first
                 req2 == IF again
                         THEN req1 \o <<SearchRequest(client, Str(capitalize(animal_name)),
                                                      net.s2)>>
                         ELSE req1
             IN  IF second.kind = "raise"
                 THEN [outcome |-> second, effective |-> client, requests |-> req2]
                 ELSE IF second.value = None /\ ~is_english(client)
                 THEN LET fallback == EnWiki
                          third == search_page(net.s3)
                          req3 == req2 \o <<SearchRequest(fallback,
                                               Str(capitalize(animal_name)), net.s3)>>
                      IN  IF third.kind = "raise"
                          THEN [outcome |-> third, effective |-> client, requests |-> req3]
                          ELSE IF third.value = None
                          THEN [outcome |-> Raise("LookupError", AnimalNotFound(animal_name)),
                                effective |-> client, requests |-> req3]
                          ELSE [outcome |-> third,
                                effective |-> effective_client(client, fallback, third),
                                requests |-> req3]
                 ELSE IF second.value = None
                 THEN [outcome |-> Raise("LookupError", AnimalNotFound(animal_name)),
                       effective |-> client, requests |-> req2]
                 ELSE [outcome |-> second, effective |-> client, requests |-> req2]

\* Lines 81-85: the fact returned once the speed is parsed; an exception of
\* the fetches or parses passes through.
animal_fact(search, effective, req, parsed) ==
    [outcome |->
         IF parsed.outcome.kind = "raise" THEN parsed.outcome
         ELSE Return(from_kmh(search.title, parsed.outcome.value,
                              _build_page_url(search.page_id, effective))),
     requests |-> req \o parsed.requests]

\* Lines 74-85, given what the searches made.
animal_after_search(found, net) ==
    IF found.outcome.kind = "raise"
    THEN [outcome |-> found.outcome, requests |-> found.requests]
    ELSE animal_fact(found.outcome.value, found.effective, found.requests,
                     animal_fetch_and_parse(found.effective,
                                            found.outcome.value.page_id, net))

\* Lines 64-85: the try body.
animal_try(client, animal_name, net) ==
    animal_after_search(animal_search(client, animal_name, net), net)

\* Lines 86-93: the handler, given what the try body made.
animal_except(animal_name, try) ==
    [outcome |->
         IF caught(try.outcome)
         THEN Return(from_kmh(Str(animal_name) \o " (fallback)", RatInt(90),
                              "fallback:" \o try.outcome.msg))
         ELSE try.outcome,
     requests |-> try.requests]

get_animal_speed(client, animal_name, net) ==
    animal_except(animal_name, animal_try(client, animal_name, net))

(***************************************************************************)
(* The resolvers as a state machine: a client, an animal name and the      *)
(* network's answers are drawn, and the resolver runs against them.        *)
(***************************************************************************)
Hits == { [pageid |-> 100, title |-> "Cheetah (EN)"], [pageid |-> 7, title |-> "Gepard"] }

SearchResponses ==
    {[kind |-> k] : k \in FailureKinds}
        \cup {[kind |-> "ok", search |-> <<>>]}
        \cup {[kind |-> "ok", search |-> <<h>>] : h \in Hits}

SummaryResponses(extracts) ==
    {[kind |-> k] : k \in FailureKinds}
        \cup {[kind |-> "ok", page |-> None]}
        \cup {[kind |-> "ok", page |-> [title |-> "dummy", extract |-> e]] : e \in extracts}

\* Page texts: "200 m" and "345,5 metr" in Cyrillic, and "most" (no length);
\* "108 km/h", "100 km/ch" in Cyrillic, and "fast" (no speed).
BridgeExtracts ==
    { <<"2", "0", "0", " ", "ru_m">>,
      <<"3", "4", "5", ",", "5", " ", "ru_m", "ru_e", "ru_t", "ru_r">>,
      <<"ru_m", "ru_o", "ru_s", "ru_t">> }

AnimalExtracts ==
    { <<"1", "0", "8", " ", "k", "m", "/", "h">>,
      <<"1", "0", "0", " ", "ru_k", "ru_m", "/", "ru_ch">>,
      <<"f", "a", "s", "t">> }

AnimalNames ==
    { <<"c", "h", "e", "e", "t", "a", "h">>, <<"C", "H", "E", "E", "T", "A", "H">> }

Clients == {RuWiki, EnWiki}

BridgeNets ==
    [s1 : SearchResponses, intro : SummaryResponses(BridgeExtracts),
     full : SummaryResponses(BridgeExtracts)]

AnimalNets ==
    [s1 : SearchResponses, s2 : SearchResponses, s3 : SearchResponses,
     intro : SummaryResponses(AnimalExtracts), full : SummaryResponses(AnimalExtracts)]

InitResolve ==
    /\ \E c \in Clients :
          \/ \E n \in BridgeNets :
                call = [fn |-> "get_bridge_info_big_stone_bridge", client |-> c, net |-> n]
          \/ \E a \in AnimalNames, n \in AnimalNets :
                call = [fn |-> "get_animal_speed", client |-> c, animal_name |-> a,
                        net |-> n]
    /\ result = NotCalled
    /\ requests = <<>>

GetBridgeInfo ==
    /\ call.fn = "get_bridge_info_big_stone_bridge"
    /\ result = NotCalled
    /\ \E done \in {get_bridge_info_big_stone_bridge(call.client, call.net)} :
          result' = done.outcome /\ requests' = done.requests
    /\ UNCHANGED call

GetAnimalSpeed ==
    /\ call.fn = "get_animal_speed"
    /\ result = NotCalled
    /\ \E done \in {get_animal_speed(call.client, call.animal_name, call.net)} :
          result' = done.outcome /\ requests' = done.requests
    /\ UNCHANGED call

NextResolve == GetBridgeInfo \/ GetAnimalSpeed

SpecResolve == InitResolve /\ [][NextResolve]_vars

(***************************************************************************)
(* The self-check (app/utils/self_check.py).                               *)
(***************************************************************************)
TIME_RANGE == <<Rat(1, 2), RatInt(600)>>
\* BRIDGE_RANGE with a zero of the upper end lost: (20.0, 100.0).
BRIDGE_RANGE_short == <<RatInt(20), RatInt(100)>>

BRIDGE_RANGE == <<RatInt(20), RatInt(1000)>>
SPEED_RANGE == <<RatInt(5), RatInt(100)>>

\* "min_v <= value <= max_v" written with strict comparisons.
_check_range_exclusive(value, min_v, max_v, description, units) ==
    ReasoningStep(description,
        [value |-> value, min |-> min_v, max |-> max_v, units |-> units,
         status |-> IF RatLt(min_v, value) /\ RatLt(value, max_v) THEN "ok" ELSE "fail"])

_check_range(value, min_v, max_v, description, units) ==
    ReasoningStep(description,
        [value |-> value, min |-> min_v, max |-> max_v, units |-> units,
         status |-> IF RatLe(min_v, value) /\ RatLe(value, max_v) THEN "ok" ELSE "fail"])

\* An LLM client is what its get_model() does and what the model's invoke()
\* does: each returns or raises.  Lines 33-39: the try body.
llm_try(llm_client) ==
    IF llm_client.get_model.kind = "raise" THEN llm_client.get_model
    ELSE llm_client.invoke

\* The try body with "except Exception" lost: an error leaves the function.
_llm_self_check_uncaught(reasoning_result, llm_client) ==
    IF llm_client = None THEN Return(None)
    ELSE IF llm_try(llm_client).kind = "raise" THEN llm_try(llm_client)
    ELSE Return(ReasoningStep("LLM self-check (opinion)",
                              [comment |-> llm_try(llm_client).value]))

_llm_self_check(reasoning_result, llm_client) ==
    IF llm_client = None THEN Return(None)
    ELSE IF caught(llm_try(llm_client))
    THEN Return(ReasoningStep("LLM self-check failed",
                              [error |-> llm_try(llm_client).msg]))
    ELSE IF llm_try(llm_client).kind = "raise" THEN llm_try(llm_client)
    ELSE Return(ReasoningStep("LLM self-check (opinion)",
                              [comment |-> llm_try(llm_client).value]))

SelfCheckNote ==
    "Pri ok=False rezultat somnitelen. TODO: pereschitat s alternativnymi istochnikami pri neobhodimosti."

\* Line 77: all(step.data and step.data.get("status") == "ok" for step in steps)
all_ok(steps) == \A k \in DOMAIN steps : steps[k].data.status = "ok"

\* Lines 76-90 with the summary step appended only when the checks pass.
self_check_steps_summary_on_pass(steps, llm_step) ==
    IF llm_step.kind = "raise" THEN llm_step
    ELSE Return([passed |-> all_ok(steps),
                 steps |-> steps
                     \o (IF all_ok(steps)
                         THEN <<ReasoningStep("Itog self-check",
                                              [ok |-> TRUE, note |-> SelfCheckNote])>>
                         ELSE <<>>)
                     \o (IF llm_step.value # None THEN <<llm_step.value>> ELSE <<>>)])

\* Lines 76-90, given the three range steps and what _llm_self_check made.
self_check_steps(steps, llm_step) ==
    IF llm_step.kind = "raise" THEN llm_step
    ELSE Return([passed |-> all_ok(steps),
                 steps |-> steps
                     \o <<ReasoningStep("Itog self-check",
                                        [ok |-> all_ok(steps), note |-> SelfCheckNote])>>
                     \o (IF llm_step.value # None THEN <<llm_step.value>> ELSE <<>>)])

self_check_result(reasoning_result, llm_client) ==
    self_check_steps(
        << _check_range(reasoning_result.time_seconds, TIME_RANGE[1], TIME_RANGE[2],
                        "Proverka vremeni peresecheniya", "sekundy"),
           _check_range(reasoning_result.bridge.length_meters, BRIDGE_RANGE[1], BRIDGE_RANGE[2],
                        "Proverka dliny mosta", "metry"),
           _check_range(reasoning_result.animal.speed_m_s, SPEED_RANGE[1], SPEED_RANGE[2],
                        "Proverka skorosti geparda", "m/s") >>,
        _llm_self_check(reasoning_result, llm_client))

(***************************************************************************)
(* self_check_result as a state machine: a ReasoningResult and an LLM      *)
(* client (or none) are drawn.  The three quantities are drawn             *)
(* independently, each below, at, inside and above its range.              *)
(***************************************************************************)
ReasoningResult(bridge, animal, time_seconds, time_human_readable, steps) ==
    [bridge |-> bridge, animal |-> animal, time_seconds |-> time_seconds,
     time_human_readable |-> time_human_readable, steps |-> steps]

CheckedTimes ==
    {RatInt(0), Rat(1, 4), Rat(1, 2), RatInt(8), RatInt(600), Rat(1201, 2), RatInt(1000)}

CheckedLengths ==
    {RatInt(0), Rat(39, 2), RatInt(20), RatInt(200), RatInt(487), RatInt(1000), Rat(2001, 2)}

CheckedSpeeds == {Rat(9, 2), RatInt(5), RatInt(25), RatInt(100), Rat(201, 2)}

CheckedResults ==
    {ReasoningResult(BridgeInfo("Mock Bridge", l, "mock://bridge"),
                     AnimalSpeed("Mock Cheetah", v, "mock://cheetah", None),
                     t, format_seconds(t), <<>>) :
        l \in CheckedLengths, v \in CheckedSpeeds, t \in CheckedTimes}

LLMClients ==
    {[get_model |-> Raise("ValueError", "OPENROUTER_API_KEY is not set"),
      invoke |-> Return("ok")]}
        \cup {[get_model |-> Return("model"), invoke |-> o] :
                o \in {Raise("RuntimeError", "connection refused"),
                       Raise("ValueError", "bad response"),
                       Return("ok"), Return("warning")}}

InitSelfCheck ==
    /\ call \in {[fn |-> "self_check_result", result |-> r, llm_client |-> c] :
                    r \in CheckedResults, c \in {None} \cup LLMClients}
    /\ result = NotCalled
    /\ requests = <<>>

SelfCheckResult ==
    /\ call.fn = "self_check_result"
    /\ result = NotCalled
    /\ result' = self_check_result(call.result, call.llm_client)
    /\ UNCHANGED <<call, requests>>

SpecSelfCheck == InitSelfCheck /\ [][SelfCheckResult]_vars

(***************************************************************************)
(* The crossing end to end, as run_agent chains it (app/agent_cli.py): the *)
(* bridge tool and the animal tool resolve their fact once each, in either *)
(* order (lines 25-26, 34-36), then estimate_crossing_time runs on the two *)
(* facts (line 141) and self_check_result on its result (line 156).  An    *)
(* exception of estimate_crossing_time is not handled and ends the run.    *)
(* For this call, result holds what the run has gathered so far.           *)
(***************************************************************************)
Crossing(bridge, animal, estimate, check) ==
    [kind |-> "crossing", bridge |-> bridge, animal |-> animal,
     estimate |-> estimate, check |-> check]

\* Page texts: lengths 0, 19, 200, 487 and 1001 m and a text without one;
\* speeds 0, 10, 100 and 400 km/h in Cyrillic, 108 km/h, and a text without one.
CrossingBridgeExtracts ==
    { <<"0", " ", "ru_m">>, <<"1", "9", " ", "ru_m">>, <<"2", "0", "0", " ", "ru_m">>,
      <<"4", "8", "7", " ", "ru_m">>, <<"1", "0", "0", "1", " ", "ru_m">>,
      <<"ru_m", "ru_o", "ru_s", "ru_t">> }

CrossingAnimalExtracts ==
    { <<"0", " ", "ru_k", "ru_m", "/", "ru_ch">>,
      <<"1", "0", " ", "ru_k", "ru_m", "/", "ru_ch">>,
      <<"1", "0", "0", " ", "ru_k", "ru_m", "/", "ru_ch">>,
      <<"4", "0", "0", " ", "ru_k", "ru_m", "/", "ru_ch">>,
      <<"1", "0", "8", " ", "k", "m", "/", "h">>,
      <<"f", "a", "s", "t">> }

CrossingSearches ==
    { [kind |-> "timeout"], [kind |-> "ok", search |-> <<>>],
      [kind |-> "ok", search |-> <<[pageid |-> 7, title |-> "Gepard"]>>] }

CrossingSummaries(extracts) ==
    {[kind |-> "http_error"]}
        \cup {[kind |-> "ok", page |-> [title |-> "dummy", extract |-> e]] : e \in extracts}

CrossingBridgeNets ==
    [s1 : CrossingSearches, intro : CrossingSummaries(CrossingBridgeExtracts),
     full : CrossingSummaries({<<"2", "0", "0", " ", "ru_m">>})]

CrossingAnimalNets ==
    [s1 : CrossingSearches, s2 : {[kind |-> "ok", search |-> <<>>]},
     s3 : {[kind |-> "ok", search |-> <<>>],
           [kind |-> "ok", search |-> <<[pageid |-> 100, title |-> "Cheetah (EN)"]>>]},
     intro : CrossingSummaries(CrossingAnimalExtracts),
     full : CrossingSummaries({<<"1", "0", "8", " ", "k", "m", "/", "h">>})]

InitCrossing ==
    /\ \E b \in CrossingBridgeNets, a \in CrossingAnimalNets :
          call = [fn |-> "run_agent", client |-> RuWiki,
                  animal_name |-> <<"c", "h", "e", "e", "t", "a", "h">>,
                  bridge_net |-> b, animal_net |-> a, llm_client |-> None]
    /\ result = Crossing(None, None, None, None)
    /\ requests = <<>>

\* bridge_info_tool: lines 25-26.
BridgeInfoTool ==
    /\ call.fn = "run_agent"
    /\ result.kind = "crossing" /\ result.bridge = None
    /\ \E done \in {get_bridge_info_big_stone_bridge(call.client, call.bridge_net)} :
          /\ result' = [result EXCEPT !.bridge = done.outcome]
          /\ requests' = requests \o done.requests
    /\ UNCHANGED call

\* animal_speed_tool: lines 33-36.
AnimalSpeedTool ==
    /\ call.fn = "run_agent"
    /\ result.kind = "crossing" /\ result.animal = None
    /\ \E done \in {get_animal_speed(call.client, call.animal_name, call.animal_net)} :
          /\ result' = [result EXCEPT !.animal = done.outcome]
          /\ requests' = requests \o done.requests
    /\ UNCHANGED call

\* Line 141, once both facts are in the cache.
Estimate ==
    /\ call.fn = "run_agent"
    /\ result.kind = "crossing"
    /\ result.bridge # None /\ result.animal # None /\ result.estimate = None
    /\ result.bridge.kind = "return" /\ result.animal.kind = "return"
    /\ result' = [result EXCEPT
                     !.estimate = estimate_crossing_time(result.bridge.value,
                                                         result.animal.value)]
    /\ UNCHANGED <<call, requests>>

\* Line 156.
SelfCheck ==
    /\ call.fn = "run_agent"
    /\ result.kind = "crossing"
    /\ result.estimate # None /\ result.check = None
    /\ result.estimate.kind = "return"
    /\ result' = [result EXCEPT
                     !.check = self_check_result(result.estimate.value, call.llm_client)]
    /\ UNCHANGED <<call, requests>>

NextCrossing == BridgeInfoTool \/ AnimalSpeedTool \/ Estimate \/ SelfCheck

SpecCrossing == InitCrossing /\ [][NextCrossing]_vars

(***************************************************************************)
(* WikipediaClient.search_page as a state machine: a client, a title and   *)
(* what the network would answer to a first and to a second request are    *)
(* drawn; the call makes its one request (line 31) and the first answer    *)
(* decides.  A failed round trip is a timeout, a transport failure or a    *)
(* status raise_for_status rejects.                                        *)
(***************************************************************************)
RequestFailures == {"timeout", "connection_error", "http_error"}

SearchHitLists ==
    { <<>>,
      <<[pageid |-> 7, title |-> "Gepard"]>>,
      <<[pageid |-> 100, title |-> "Cheetah (EN)"]>>,
      <<[pageid |-> 7, title |-> "Gepard"], [pageid |-> 100, title |-> "Cheetah (EN)"]>>,
      <<[pageid |-> 100, title |-> "Cheetah (EN)"], [pageid |-> 7, title |-> "Gepard"]>> }

SearchPageResponses ==
    {[kind |-> k] : k \in RequestFailures}
        \cup {[kind |-> "ok", search |-> hits] : hits \in SearchHitLists}

SearchTitles == {"Gepard", "gepard"}

InitSearch ==
    /\ \E c \in Clients, t \in SearchTitles,
          first \in SearchPageResponses, second \in SearchPageResponses :
          call = [fn |-> "search_page", client |-> c, title |-> t,
                  net |-> <<first, second>>]
    /\ result = NotCalled
    /\ requests = <<>>

SearchPage ==
    /\ call.fn = "search_page"
    /\ result = NotCalled
    /\ result' = search_page(call.net[1])
    /\ requests' = <<SearchRequest(call.client, call.title, call.net[1])>>
    /\ UNCHANGED call

SpecSearch == InitSearch /\ [][SearchPage]_vars

(***************************************************************************)
(* run_agent with its executor (app/agent_cli.py).  The executor is the    *)
(* LLM-driven caller: during one invoke it calls the two tools any number  *)
(* of times, in any order and with any animal name, and then returns its   *)
(* output or raises.  A tool runs to its end before the next one starts.   *)
(* tools_cache is a function from its keys to the facts stored under them. *)
(***************************************************************************)
tools_cache_new == [k \in {} |-> None]

\* tools_cache.get(key)
cache_get(cache, key) == IF key \in DOMAIN cache THEN cache[key] ELSE None

\* cache[key] = value
cache_set(cache, key, value) ==
    [k \in DOMAIN cache \cup {key} |-> IF k = key THEN value ELSE cache[k]]

\* str.lower()
lower(name) == [k \in DOMAIN name |-> Lower(name[k])]

\* Line 33 without ".lower()".
animal_key_case_sensitive(animal) == "animal:" \o Str(animal)

\* Line 33: key = f"animal:{animal.lower()}"
animal_key(animal) == "animal:" \o Str(lower(animal))

\* bridge_info_tool, lines 25-27: the cache after the call and the resolver
\* call it made, if any.  resolved is what get_bridge_info_big_stone_bridge
\* answers when it is called.
bridge_info_tool(cache, resolved) ==
    IF "bridge" \notin DOMAIN cache
    THEN [cache |-> cache_set(cache, "bridge", resolved.outcome.value),
          resolved |-> <<[fn |-> "get_bridge_info_big_stone_bridge", key |-> "bridge",
                          fact |-> resolved.outcome.value]>>]
    ELSE [cache |-> cache, resolved |-> <<>>]

\* Line 36 moved under the "if" of line 34: "animal" is set only on a miss.
animal_speed_tool_set_on_miss(cache, animal, resolved) ==
    IF animal_key(animal) \notin DOMAIN cache
    THEN [cache |-> cache_set(cache_set(cache, animal_key(animal), resolved.outcome.value),
                              "animal", resolved.outcome.value),
          animal_data |-> resolved.outcome.value,
          resolved |-> <<[fn |-> "get_animal_speed", key |-> animal_key(animal),
                          animal |-> animal, fact |-> resolved.outcome.value]>>]
    ELSE [cache |-> cache,
          animal_data |-> cache[animal_key(animal)],
          resolved |-> <<>>]

\* animal_speed_tool, lines 33-37: the cache after the call, the fact the tool
\* reports (animal_data) and the resolver call it made, if any.  resolved is
\* what get_animal_speed answers for this name when it is called.
animal_speed_tool(cache, animal, resolved) ==
    IF animal_key(animal) \notin DOMAIN cache
    THEN [cache |-> cache_set(cache_set(cache, animal_key(animal), resolved.outcome.value),
                              "animal", resolved.outcome.value),
          animal_data |-> resolved.outcome.value,
          resolved |-> <<[fn |-> "get_animal_speed", key |-> animal_key(animal),
                          animal |-> animal, fact |-> resolved.outcome.value]>>]
    ELSE [cache |-> cache_set(cache, "animal", cache[animal_key(animal)]),
          animal_data |-> cache[animal_key(animal)],
          resolved |-> <<>>]

\* "not bridge or not animal" (lines 110, 118, 134): a fact is an object and
\* true, a missing key gives None.
facts_missing(cache) ==
    cache_get(cache, "bridge") = None \/ cache_get(cache, "animal") = None

\* Line 110 with "or" written "and": retried only while both are missing.
invoke_again_both_missing(cache) ==
    cache_get(cache, "bridge") = None /\ cache_get(cache, "animal") = None

\* Line 110: the executor is invoked in this round of the loop.
invoke_again(cache) == facts_missing(cache)

MissingTools ==
    "Agent did not call required tools after retries. Bridge or animal data is missing."

\* Lines 134-139.
missing_tools_error(last_error) ==
    Raise("RuntimeError",
          MissingTools \o (IF last_error # None
                           THEN " Poslednyaya oshibka: " \o last_error.msg ELSE ""))

\* Line 159.
audit_step(output) == ReasoningStep("Agentnyj otvet", [raw_agent_output |-> output])

\* Lines 157-161 with the audit step put before the self-check steps.
returned_result_audit_first(estimate, check, output) ==
    IF check.kind = "raise" THEN check
    ELSE Return([estimate.value EXCEPT
                    !.steps = @ \o <<audit_step(output)>> \o check.value.steps])

\* Lines 156-161, given what estimate_crossing_time and self_check_result made.
returned_result(estimate, check, output) ==
    IF check.kind = "raise" THEN check
    ELSE Return([estimate.value EXCEPT
                    !.steps = @ \o check.value.steps \o <<audit_step(output)>>])

\* Lines 141-161, given what estimate_crossing_time made.
run_agent_checked(estimate, output, llm_selfcheck_client) ==
    IF estimate.kind = "raise"
    THEN [returned |-> estimate, estimate |-> estimate, check |-> None]
    ELSE [returned |-> returned_result(estimate,
                          self_check_result(estimate.value, llm_selfcheck_client), output),
          estimate |-> estimate,
          check |-> self_check_result(estimate.value, llm_selfcheck_client)]

\* Lines 130-161: what run_agent does once the loop is over.  estimate and
\* check are what the two calls made, None when the call was not made.
run_agent_tail(cache, output, last_error, llm_selfcheck_client) ==
    IF facts_missing(cache)
    THEN [returned |-> missing_tools_error(last_error), estimate |-> None, check |-> None]
    ELSE run_agent_checked(estimate_crossing_time(cache["bridge"], cache["animal"]),
                           output, llm_selfcheck_client)

(***************************************************************************)
(* run_agent as a state machine.  result holds the locals of the request   *)
(* under way: the cache, the count of executor invocations, the raw output *)
(* and the last error; last_tool and requests are the record of what       *)
(* happened in it: the latest call of the animal tool and the resolver     *)
(* calls made.  repeated tells that an earlier request has ended.          *)
(***************************************************************************)

\* max_tool_retries, 3 by default (line 83).
ToolRetries == {0, 1, 3}

AgentAnimals ==
    { <<"C", "h", "e", "e", "t", "a", "h">>, <<"c", "h", "e", "e", "t", "a", "h">>,
      <<"C", "a", "t">> }

\* The search times out; or finds a page whose intro gives 1001 m (out of the
\* self-check range).
AgentBridgeNets ==
    { [s1 |-> [kind |-> "timeout"], intro |-> [kind |-> "timeout"],
       full |-> [kind |-> "timeout"]],
      [s1 |-> [kind |-> "ok", search |-> <<[pageid |-> 5, title |-> "Most"]>>],
       intro |-> [kind |-> "ok",
                  page |-> [title |-> "dummy", extract |-> <<"1", "0", "0", "1", " ", "ru_m">>]],
       full |-> [kind |-> "timeout"]] }

\* The search times out; or finds a page whose intro gives 108 km/h or 0 km/h.
AgentAnimalNets ==
    { [s1 |-> [kind |-> "timeout"], s2 |-> [kind |-> "timeout"],
       s3 |-> [kind |-> "timeout"], intro |-> [kind |-> "timeout"],
       full |-> [kind |-> "timeout"]] }
    \cup
    { [s1 |-> [kind |-> "ok", search |-> <<[pageid |-> 7, title |-> "Gepard"]>>],
       s2 |-> [kind |-> "timeout"], s3 |-> [kind |-> "timeout"],
       intro |-> [kind |-> "ok", page |-> [title |-> "dummy", extract |-> e]],
       full |-> [kind |-> "timeout"]] :
        e \in { <<"1", "0", "8", " ", "k", "m", "/", "h">>,
                <<"0", " ", "ru_k", "ru_m", "/", "ru_ch">> } }

\* What the resolvers answer to the tools, for each client, name and network.
ResolvedBridges ==
    [c \in {RuWiki}, net \in AgentBridgeNets |-> get_bridge_info_big_stone_bridge(c, net)]

ResolvedAnimals ==
    [c \in {RuWiki}, animal \in AgentAnimals, net \in AgentAnimalNets |->
        get_animal_speed(c, animal, net)]

ExecutorOutcomes ==
    { Return([messages |-> "answer"]), Raise("RuntimeError", "model unavailable") }

SelfCheckClients ==
    { None, [get_model |-> Return("model"), invoke |-> Return("ok")] }

\* Lines 103-107: a request starts with a new, empty cache.
AgentState(repeated) ==
    [kind |-> "agent", repeated |-> repeated, pc |-> "loop",
     tools_cache |-> tools_cache_new, attempt |-> 0,
     output |-> None, last_error |-> None, last_tool |-> None,
     llm_selfcheck_client |-> None, estimate |-> None, check |-> None,
     returned |-> None]

InitAgent ==
    /\ \E n \in ToolRetries :
          call = [fn |-> "run_agent", client |-> RuWiki, max_tool_retries |-> n]
    /\ result = AgentState(FALSE)
    /\ requests = <<>>

\* Lines 109-112: a round of the loop that invokes the executor.
ExecutorInvoke ==
    /\ call.fn = "run_agent" /\ result.kind = "agent" /\ result.pc = "loop"
    /\ result.attempt < call.max_tool_retries
    /\ invoke_again(result.tools_cache)
    /\ result' = [result EXCEPT !.pc = "invoking", !.attempt = @ + 1]
    /\ UNCHANGED <<call, requests>>

\* The executor calls bridge_info_tool.
CallBridgeInfoTool ==
    /\ call.fn = "run_agent" /\ result.kind = "agent" /\ result.pc = "invoking"
    /\ \E net \in AgentBridgeNets :
          \E done \in {bridge_info_tool(result.tools_cache, ResolvedBridges[call.client, net])} :
              /\ result' = [result EXCEPT !.tools_cache = done.cache]
              /\ requests' = requests \o done.resolved
    /\ UNCHANGED call

\* The executor calls animal_speed_tool with some animal name.
CallAnimalSpeedTool ==
    /\ call.fn = "run_agent" /\ result.kind = "agent" /\ result.pc = "invoking"
    /\ \E animal \in AgentAnimals, net \in AgentAnimalNets :
          \E done \in {animal_speed_tool(result.tools_cache, animal,
                                         ResolvedAnimals[call.client, animal, net])} :
              /\ result' = [result EXCEPT
                               !.tools_cache = done.cache,
                               !.last_tool = [animal |-> animal,
                                              animal_data |-> done.animal_data,
                                              cached |-> done.resolved = <<>>]]
              /\ requests' = requests \o done.resolved
    /\ UNCHANGED call

\* Lines 112-117: the invocation returns its output, or raises and the error
\* is kept as the output.
ExecutorEnds ==
    /\ call.fn = "run_agent" /\ result.kind = "agent" /\ result.pc = "invoking"
    /\ \E end \in ExecutorOutcomes :
          result' = [result EXCEPT
                        !.pc = "loop",
                        !.output = IF end.kind = "raise" THEN [error |-> end.msg]
                                   ELSE end.value,
                        !.last_error = IF end.kind = "raise" THEN end ELSE @]
    /\ UNCHANGED <<call, requests>>

\* Lines 123-161: the loop is over (its rounds are used up or both facts are
\* in the cache); the facts are read from the cache, and the request ends.
RunAgentEnds ==
    /\ call.fn = "run_agent" /\ result.kind = "agent" /\ result.pc = "loop"
    /\ result.attempt >= call.max_tool_retries \/ ~invoke_again(result.tools_cache)
    /\ \E c \in SelfCheckClients :
          \E done \in {run_agent_tail(result.tools_cache, result.output,
                                      result.last_error, c)} :
              result' = [result EXCEPT
                            !.pc = "done", !.llm_selfcheck_client = c,
                            !.estimate = done.estimate, !.check = done.check,
                            !.returned = done.returned]
    /\ UNCHANGED <<call, requests>>

\* The next call of run_agent: build_agent_executor makes its own cache.
NextRequest ==
    /\ call.fn = "run_agent" /\ result.kind = "agent" /\ result.pc = "done"
    /\ result' = AgentState(TRUE)
    /\ requests' = <<>>
    /\ UNCHANGED call

NextAgent ==
    \/ ExecutorInvoke \/ CallBridgeInfoTool \/ CallAnimalSpeedTool
    \/ ExecutorEnds \/ RunAgentEnds \/ NextRequest

SpecAgent == InitAgent /\ [][NextAgent]_vars

(***************************************************************************)
(* The A2A executor (app/a2a_server.py).  CheetahAgentExecutor has no      *)
(* fields; a call gets the request's event queue and, for execute, what    *)
(* run_agent makes of the user's text.  A call yields the queue after it   *)
(* and how it ended.                                                       *)
(***************************************************************************)
\* repr(exc) of an exception built with one string argument.
repr(exc) == exc.exc \o "('" \o exc.msg \o "')"

\* Lines 76-84.
rendered_answer(reasoning_result) ==
    reasoning_result.animal.name \o " peresekaet " \o reasoning_result.bridge.name
        \o " dlinoj " \o Format1(reasoning_result.bridge.length_meters) \o " m"
        \o " za " \o reasoning_result.time_human_readable
        \o " pri skorosti " \o Format1(reasoning_result.animal.speed_m_s) \o " m/s.\n\n"
        \o "Istochniki:\n"
        \o "- Most: " \o reasoning_result.bridge.source \o "\n"
        \o "- Zhivotnoe: " \o reasoning_result.animal.source

\* new_agent_text_message(final_text, ...)
new_agent_text_message(final_text) == [role |-> "agent", text |-> final_text]

\* Lines 73-96 with the handler re-raising: nothing is enqueued for an error.
execute_reraising(run, event_queue) ==
    IF run.kind = "raise" THEN [event_queue |-> event_queue, ended |-> run]
    ELSE [event_queue |-> Append(event_queue,
                                 new_agent_text_message(rendered_answer(run.value))),
          ended |-> Return(None)]

\* CheetahAgentExecutor.execute, lines 71-96; run is what run_agent made.
execute(run, event_queue) ==
    IF run.kind = "raise" /\ ~caught(run)
    THEN [event_queue |-> event_queue, ended |-> run]
    ELSE [event_queue |->
              Append(event_queue,
                     new_agent_text_message(
                         IF run.kind = "raise"
                         THEN "Oshibka pri vypolnenii agenta: " \o repr(run)
                         ELSE rendered_answer(run.value))),
          ended |-> Return(None)]

\* CheetahAgentExecutor.cancel, lines 98-105.
cancel(event_queue) == [event_queue |-> event_queue, ended |-> Return(None)]

(***************************************************************************)
(* The executor as a state machine: it serves execute and cancel calls,    *)
(* each on a queue that is empty or already holds a message; result keeps  *)
(* the calls served.  What run_agent made is one of the ends of run_agent  *)
(* above: no tool called, or a bridge and an animal in the cache.          *)
(***************************************************************************)
MaxServed == 2

FilledCaches ==
    { cache_set(cache_set(tools_cache_new, "bridge", ResolvedBridges[RuWiki, b].outcome.value),
                "animal", ResolvedAnimals[RuWiki, a, n].outcome.value) :
        b \in AgentBridgeNets, a \in AgentAnimals, n \in AgentAnimalNets }

RunAgentOutcomes ==
    { run_agent_tail(cache, [messages |-> "answer"], None, None).returned :
        cache \in {tools_cache_new} \cup FilledCaches }

EventQueues == { <<>>, <<new_agent_text_message("working")>> }

InitServer ==
    /\ call = [fn |-> "CheetahAgentExecutor"]
    /\ result = [kind |-> "a2a", served |-> <<>>]
    /\ requests = <<>>

ServeExecute ==
    /\ call.fn = "CheetahAgentExecutor"
    /\ Len(result.served) < MaxServed
    /\ \E run \in RunAgentOutcomes, event_queue \in EventQueues :
          \E done \in {execute(run, event_queue)} :
              result' = [result EXCEPT
                            !.served = Append(@, [method |-> "execute", run |-> run,
                                                  before |-> event_queue,
                                                  after |-> done.event_queue,
                                                  ended |-> done.ended])]
    /\ UNCHANGED <<call, requests>>

ServeCancel ==
    /\ call.fn = "CheetahAgentExecutor"
    /\ Len(result.served) < MaxServed
    /\ \E event_queue \in EventQueues :
          \E done \in {cancel(event_queue)} :
              result' = [result EXCEPT
                            !.served = Append(@, [method |-> "cancel",
                                                  before |-> event_queue,
                                                  after |-> done.event_queue,
                                                  ended |-> done.ended])]
    /\ UNCHANGED <<call, requests>>

NextServer == ServeExecute \/ ServeCancel

SpecServer == InitServer /\ [][NextServer]_vars

(***************************************************************************)
(* What "a number followed by a unit marker" means, stated on positions    *)
(* of the text, without scanning or backtracking.                          *)
(***************************************************************************)
AllDigits(s, a, b) == \A q \in a..b : IsDigit(s[q])

AllSpace(t, a, b) == \A q \in a..b : IsSpace(t[q])

\* s is digits, or digits, one "." or ",", digits.
IsNumber(s) ==
    \E a \in 1..Len(s) :
        /\ AllDigits(s, 1, a)
        /\ \/ a = Len(s)
           \/ /\ a + 2 <= Len(s)
              /\ s[a + 1] \in {".", ","}
              /\ AllDigits(s, a + 2, Len(s))

\* The decimal value of a number: digit d at distance e left of the last
\* digit weighs d * 10^e, and the digits after the separator are the fraction.
RECURSIVE WeightedDigits(_, _)
WeightedDigits(s, k) ==
    IF k = 0 THEN 0
    ELSE IF IsDigit(s[k])
         THEN DigitValue(s[k]) * Pow10(Cardinality({q \in k + 1..Len(s) : IsDigit(s[q])}))
                + WeightedDigits(s, k - 1)
         ELSE WeightedDigits(s, k - 1)

NumberValue(s) ==
    LET seps == {q \in 1..Len(s) : ~IsDigit(s[q])}
        frac == IF seps = {} THEN 0 ELSE Len(s) - (CHOOSE q \in seps : TRUE)
    IN  Rat(WeightedDigits(s, Len(s)), Pow10(frac))

\* The literal lit stands in t at k, letter case aside.
LiteralAt(t, k, lit) ==
    /\ k + Len(lit) - 1 <= Len(t)
    /\ \A q \in 1..Len(lit) : Lower(t[k + q - 1]) = lit[q]

\* head, then mid, then rest, with any whitespace between them.
SpacedAt(t, k, head, mid, rest) ==
    /\ LiteralAt(t, k, head)
    /\ \E a \in k + Len(head)..Len(t), b \in k + Len(head)..Len(t) :
          /\ a < b
          /\ AllSpace(t, k + Len(head), a - 1)
          /\ LiteralAt(t, a, mid)
          /\ AllSpace(t, a + Len(mid), b - 1)
          /\ LiteralAt(t, b, rest)

\* A marker of the given kind stands in t at k.
MarkerAt(kind, t, k) ==
    CASE kind = "cyrillic meter" ->
            \/ LiteralAt(t, k, <<"ru_m">>)
            \/ LiteralAt(t, k, <<"ru_m", "ru_e", "ru_t", "ru_r">>)
      [] kind = "latin meter" ->
            \/ LiteralAt(t, k, <<"m">>)
            \/ LiteralAt(t, k, <<"m", "e", "t", "e", "r">>)
      [] kind = "speed" ->
            \/ SpacedAt(t, k, <<"ru_k", "ru_m">>, <<"/">>, <<"ru_ch">>)
            \/ SpacedAt(t, k, <<"ru_k", "ru_m">>, <<"ru_v">>, <<"ru_ch", "ru_a", "ru_s">>)
            \/ LiteralAt(t, k, <<"k", "m", "/", "h">>)
            \/ LiteralAt(t, k, <<"k", "m", "h">>)

\* The numbers of t that a marker of one of the kinds follows: <<i, j>> when
\* t[i..j] is a number that extends no further left, and after optional
\* whitespace a marker stands.
MarkedEnds(kinds, t) ==
    {j \in 1..Len(t) :
        /\ IsDigit(t[j])
        /\ \E k \in j + 1..Len(t), kind \in kinds :
              AllSpace(t, j + 1, k - 1) /\ MarkerAt(kind, t, k)}

MarkedNumbers(kinds, t) ==
    {p \in (1..Len(t)) \X MarkedEnds(kinds, t) :
        /\ p[1] <= p[2]
        /\ IsDigit(t[p[1]])
        /\ IsNumber(SubSeq(t, p[1], p[2]))
        /\ \A i \in 1..p[1] - 1 : ~IsNumber(SubSeq(t, i, p[2]))}

MarkedValues(kinds, t) ==
    {NumberValue(SubSeq(t, p[1], p[2])) : p \in MarkedNumbers(kinds, t)}

\* out is the largest of the values, or the no-match error when there is none.
IsMaxOrNoMatch(out, values, error) ==
    IF values = {} THEN out = Raise("ValueError", error)
    ELSE /\ out.kind = "return"
         /\ out.value \in values
         /\ \A v \in values : RatLe(v, out.value)

(***************************************************************************)
(* C6: _parse_length_meters returns the maximum over all numbers of the    *)
(* text that a meter marker follows (whitespace allowed between them),     *)
(* reading "," and "." as the decimal separator, and raises the no-match   *)
(* error exactly when the text holds no such number; "345,5 m" and         *)
(* "123 m" (Cyrillic) in one text give 345.5.                              *)
(***************************************************************************)
C6_LengthIsMaxOfMarked ==
    (call.fn = "_parse_length_meters" /\ result # NotCalled) =>
        /\ IsMaxOrNoMatch(result, MarkedValues({"cyrillic meter"}, call.text), LengthError)
        /\ call.text = RuLengthSentence => result = Return(Rat(3455, 10))

C6_Witness ==
    /\ call.fn = "_parse_length_meters"
    /\ call.text = RuLengthSentence
    /\ Cardinality(MarkedValues({"cyrillic meter"}, call.text)) = 2
    /\ result = Return(Rat(3455, 10))

(***************************************************************************)
(* C7 as claimed: every one of the four markers, Cyrillic and Latin, is    *)
(* recognised in any letter case, and the English sentence gives 345.5.    *)
(***************************************************************************)
C7_FourMarkers ==
    (call.fn = "_parse_length_meters" /\ result # NotCalled) =>
        /\ MarkedNumbers({"cyrillic meter", "latin meter"}, call.text) # {} => result.kind = "return"
        /\ call.text = EnLengthSentence => result = Return(Rat(3455, 10))

(***************************************************************************)
(* C7 as the code has it: only the Cyrillic markers are recognised, in any *)
(* letter case; a number followed by a Latin "m" or "meter" alone is not   *)
(* a length, so the English sentence raises the no-match error, while the  *)
(* same sentence in Russian gives 345.5.                                   *)
(***************************************************************************)
C7_CyrillicMarkersOnly ==
    (call.fn = "_parse_length_meters" /\ result # NotCalled) =>
        /\ MarkedNumbers({"cyrillic meter"}, call.text) # {} => result.kind = "return"
        /\ MarkedNumbers({"cyrillic meter"}, call.text) = {} =>
              result = Raise("ValueError", LengthError)
        /\ call.text = EnLengthSentence => result = Raise("ValueError", LengthError)
        /\ call.text = RuLengthSentence => result = Return(Rat(3455, 10))

C7_Witness ==
    /\ call.fn = "_parse_length_meters"
    /\ call.text = EnLengthSentence
    /\ MarkedNumbers({"latin meter"}, call.text) # {}
    /\ result = Raise("ValueError", LengthError)

(***************************************************************************)
(* C8: _parse_speed_kmh returns the maximum over all numbers of the text   *)
(* that a speed marker (km/h or "km v chas" in Cyrillic, km/h or kmh in    *)
(* Latin, any letter case) follows, markers mixed in one text, and raises  *)
(* the no-match error exactly when the text holds no such number;          *)
(* "100 km/h" (Cyrillic) and "95 km/h" (Latin) in one text give 100.       *)
(***************************************************************************)
C8_SpeedIsMaxOfMarked ==
    (call.fn = "_parse_speed_kmh" /\ result # NotCalled) =>
        /\ IsMaxOrNoMatch(result, MarkedValues({"speed"}, call.text), SpeedError)
        /\ call.text = RuEnSpeedSentence => result = Return(RatInt(100))

C8_Witness ==
    /\ call.fn = "_parse_speed_kmh"
    /\ call.text = RuEnSpeedSentence
    /\ MarkedValues({"speed"}, call.text) = {RatInt(100), RatInt(95)}
    /\ result = Return(RatInt(100))

(***************************************************************************)
(* C9: a number followed by a slashed marker with whitespace around the    *)
(* slash, Cyrillic or Latin, is recognised exactly like the same text with *)
(* the marker unspaced.                                                    *)
(***************************************************************************)
SpeedNumbers == {<<"1", "0">>, <<"9">>, <<"1", ",", "5">>}

SlashedMarkers ==
    { [spaced |-> <<"ru_k", "ru_m", " ", "/", " ", "ru_ch">>,
       unspaced |-> <<"ru_k", "ru_m", "/", "ru_ch">>],
      [spaced |-> <<"k", "m", " ", "/", " ", "h">>,
       unspaced |-> <<"k", "m", "/", "h">>] }

C9_SpacedSlashLikeUnspaced ==
    \A num \in SpeedNumbers, gap \in {<<>>, <<" ">>}, mk \in SlashedMarkers :
        (/\ call.fn = "_parse_speed_kmh"
         /\ call.text = num \o gap \o mk.spaced
         /\ result # NotCalled) =>
            /\ result.kind = "return"
            /\ result = _parse_speed_kmh(num \o gap \o mk.unspaced)

(***************************************************************************)
(* C3: for every bridge and every animal with speed_m_s > 0,               *)
(* estimate_crossing_time returns a result whose time_seconds is           *)
(* length_meters / speed_m_s (time * speed = length), whose bridge and     *)
(* animal are the inputs, and whose steps are three: bridge fact, animal   *)
(* fact, computed time, each with its numbers.                             *)
(***************************************************************************)
C3_TimeIsLengthOverSpeed ==
    (/\ call.fn = "estimate_crossing_time"
     /\ result # NotCalled
     /\ call.animal.speed_m_s.n > 0) =>
        /\ result.kind = "return"
        /\ result.value.bridge = call.bridge
        /\ result.value.animal = call.animal
        /\ LET time == result.value.time_seconds
               speed == call.animal.speed_m_s
               length == call.bridge.length_meters
           IN  time.n * speed.n * length.d = length.n * time.d * speed.d
        /\ Len(result.value.steps) = 3
        /\ result.value.steps[1].description = "Poluchena dlina mosta"
        /\ result.value.steps[1].data.length_meters = call.bridge.length_meters
        /\ result.value.steps[2].description = "Poluchena skorost zhivotnogo"
        /\ result.value.steps[2].data.speed_m_s = call.animal.speed_m_s
        /\ result.value.steps[3].description = "Rasschitano vremya peresecheniya"
        /\ result.value.steps[3].data.time_seconds = result.value.time_seconds

C3_Witness ==
    /\ call.fn = "estimate_crossing_time"
    /\ call.bridge.length_meters = RatInt(50)
    /\ call.animal.speed_m_s = RatInt(30)
    /\ result.kind = "return"
    /\ result.value.time_seconds = Rat(5, 3)
    /\ Len(result.value.steps) = 3

(***************************************************************************)
(* C4: estimate_crossing_time called with speed_m_s <= 0, zero or          *)
(* negative, raises the validation error "speed must be positive" for      *)
(* every bridge, and returns no result.                                    *)
(***************************************************************************)
C4_NonPositiveSpeedRaises ==
    (/\ call.fn = "estimate_crossing_time"
     /\ result # NotCalled
     /\ call.animal.speed_m_s.n <= 0) =>
        result = Raise("ValueError", SpeedNotPositive)

C4_Witness ==
    /\ call.fn = "estimate_crossing_time"
    /\ call.bridge.name = "Any Bridge"
    /\ call.animal.name = "Slow Animal"
    /\ call.animal.speed_m_s = RatInt(0)
    /\ result = Raise("ValueError", SpeedNotPositive)

(***************************************************************************)
(* C5: format_seconds follows the three-branch rule for every s >= 0.      *)
(* Below 60 it shows s to one decimal and the seconds word.  From 60 on,   *)
(* with minutes the whole minutes in s and remainder what is left, it      *)
(* shows the minutes alone when remainder < 0.1, and the minutes and the   *)
(* remainder to one decimal when remainder >= 0.1.  45.12 gives            *)
(* "45.1 seconds", 120 "2 minutes", 125.4 "2 minutes 5.4 seconds".         *)
(***************************************************************************)
\* t tenths is x to one decimal: no other number of tenths is nearer to x.
IsOneDecimalOf(t, x) == 2 * Abs(10 * x.n - t * x.d) <= x.d

OneDecimal(t) == IntToStr(t \div 10) \o "." \o IntToStr(t % 10)

\* Some one-decimal rendering of x, between before and after, is out.
ShowsOneDecimal(out, before, x, after) ==
    \E t \in {(10 * x.n) \div x.d, (10 * x.n) \div x.d + 1} :
        IsOneDecimalOf(t, x) /\ out = before \o OneDecimal(t) \o after

C5_ThreeBranchRule ==
    (call.fn = "format_seconds" /\ result # NotCalled) =>
        LET s == call.seconds
            out == result.value
        IN  /\ result.kind = "return"
            /\ RatLt(s, RatInt(60)) => ShowsOneDecimal(out, "", s, " sekund")
            /\ ~RatLt(s, RatInt(60)) =>
                  \E minutes \in 1..(s.n \div s.d) :
                      LET remainder == RatSub(s, RatInt(60 * minutes))
                      IN  /\ remainder.n >= 0
                          /\ RatLt(remainder, RatInt(60))
                          /\ RatLt(remainder, Rat(1, 10)) =>
                                out = IntToStr(minutes) \o " minut"
                          /\ ~RatLt(remainder, Rat(1, 10)) =>
                                ShowsOneDecimal(out, IntToStr(minutes) \o " minut ",
                                                remainder, " sekund")
            /\ s = Rat(4512, 100) => out = "45.1 sekund"
            /\ s = RatInt(120) => out = "2 minut"
            /\ s = Rat(1254, 10) => out = "2 minut 5.4 sekund"

C5_Witness ==
    /\ call.fn = "format_seconds"
    /\ call.seconds = Rat(1254, 10)
    /\ result = Return("2 minut 5.4 sekund")

(***************************************************************************)
(* What the network's answers mean for a resolver, read off the answers    *)
(* themselves: the error that ends the chain, "" when none does.  A parse  *)
(* failure on the intro text does not end the chain: the full-body fetch   *)
(* follows it.                                                             *)
(***************************************************************************)
HasMarked(kinds, resp) == MarkedNumbers(kinds, resp.page.extract) # {}

FetchError(page_id, resp) ==
    IF resp.kind # "ok" THEN "Failed to fetch page summary"
    ELSE IF resp.page = None THEN "Wikipedia page " \o IntToStr(page_id) \o " not found"
    ELSE ""

\* The error of the summary fetches and parses of page page_id.
ExtractError(kinds, page_id, net, no_match) ==
    IF FetchError(page_id, net.intro) # "" THEN FetchError(page_id, net.intro)
    ELSE IF HasMarked(kinds, net.intro) THEN ""
    ELSE IF FetchError(page_id, net.full) # "" THEN FetchError(page_id, net.full)
    ELSE IF HasMarked(kinds, net.full) THEN ""
    ELSE no_match

Failed(resp) == resp.kind # "ok"
Absent(resp) == resp.kind = "ok" /\ resp.search = <<>>
Hit(resp) == resp.kind = "ok" /\ resp.search # <<>>

BridgeChainError(net) ==
    IF Failed(net.s1) THEN "Failed to search Wikipedia"
    ELSE IF Absent(net.s1) THEN "Statya 'Bolshoj Kamennyj most' ne najdena"
    ELSE ExtractError({"cyrillic meter"}, net.s1.search[1].pageid, net,
                      "Ne udalos izvlech dlinu mosta iz teksta")

\* The search answer that decides an animal call: the first that is not absent,
\* among those the call issues; the last issued when all are absent.
DecidingSearch(client, net) ==
    IF ~Absent(net.s1) THEN net.s1
    ELSE IF ~Absent(net.s2) \/ client.origin = "https://en.wikipedia.org" THEN net.s2
    ELSE net.s3

AnimalChainError(client, animal_name, net) ==
    LET search == DecidingSearch(client, net)
    IN  IF Failed(search) THEN "Failed to search Wikipedia"
        ELSE IF Absent(search) THEN "Statya pro '" \o Str(animal_name) \o "' ne najdena"
        ELSE ExtractError({"speed"}, search.search[1].pageid, net,
                          "Ne udalos izvlech skorost geparda iz teksta")

(***************************************************************************)
(* C1: get_bridge_info_big_stone_bridge never raises: whatever the client  *)
(* does (the search hits, is absent or raises; a summary fetch returns     *)
(* text or raises; a parse succeeds or fails) it returns a BridgeInfo, and *)
(* whenever a step fails and ends the chain the fact is the fallback one:  *)
(* length_meters 487.0, a name ending in "(fallback)", and the source      *)
(* "fallback:" followed by the caught error's text.                        *)
(***************************************************************************)
C1_BridgeNeverRaises ==
    (call.fn = "get_bridge_info_big_stone_bridge" /\ result # NotCalled) =>
        /\ result.kind = "return"
        /\ DOMAIN result.value = {"name", "length_meters", "source"}
        /\ BridgeChainError(call.net) # "" =>
              result.value =
                  [name |-> "Bolshoj Kamennyj most (fallback)",
                   length_meters |-> RatInt(487),
                   source |-> "fallback:" \o BridgeChainError(call.net)]

C1_Witness ==
    /\ call.fn = "get_bridge_info_big_stone_bridge"
    /\ call.net.s1.kind = "timeout"
    /\ result.kind = "return"
    /\ result.value.length_meters = RatInt(487)
    /\ result.value.source = "fallback:Failed to search Wikipedia"

(***************************************************************************)
(* C2: get_animal_speed never raises: whatever the primary and the         *)
(* English client do it returns an AnimalSpeed, and whenever a step fails  *)
(* and ends the chain the fact is the fallback one: speed_km_h 90,         *)
(* speed_m_s 90/3.6 = 25, the name "<animal_name> (fallback)" and the      *)
(* source "fallback:" followed by the error's text.                        *)
(***************************************************************************)
C2_AnimalNeverRaises ==
    (call.fn = "get_animal_speed" /\ result # NotCalled) =>
        /\ result.kind = "return"
        /\ DOMAIN result.value = {"name", "speed_m_s", "source", "speed_km_h"}
        /\ AnimalChainError(call.client, call.animal_name, call.net) # "" =>
              result.value =
                  [name |-> Str(call.animal_name) \o " (fallback)",
                   speed_m_s |-> RatInt(25),
                   speed_km_h |-> RatInt(90),
                   source |-> "fallback:"
                       \o AnimalChainError(call.client, call.animal_name, call.net)]

C2_Witness ==
    /\ call.fn = "get_animal_speed"
    /\ call.animal_name = <<"c", "h", "e", "e", "t", "a", "h">>
    /\ call.net.s1.kind = "timeout"
    /\ result.kind = "return"
    /\ result.value.name = "cheetah (fallback)"
    /\ result.value.speed_m_s = RatInt(25)
    /\ result.value.source = "fallback:Failed to search Wikipedia"

(***************************************************************************)
(* C10: in get_animal_speed, when both searches on the primary client are  *)
(* absent and the search on the English client hits, the English client    *)
(* serves the summary fetches, both of them when there are two; the        *)
(* returned fact's name is the English hit's title and its source is the   *)
(* English origin with the hit's page id, never the primary client's.      *)
(***************************************************************************)
C10_SecondaryClientIsEffective ==
    (/\ call.fn = "get_animal_speed"
     /\ result # NotCalled
     /\ call.client.origin # "https://en.wikipedia.org"
     /\ Absent(call.net.s1) /\ Absent(call.net.s2) /\ Hit(call.net.s3)) =>
        LET hit == call.net.s3.search[1]
            fetches == {k \in DOMAIN requests : requests[k].action = "extracts"}
        IN  /\ fetches # {}
            /\ \A k \in fetches :
                  /\ requests[k].base_url = "https://en.wikipedia.org/w/api.php"
                  /\ requests[k].pageids = hit.pageid
            /\ result.kind = "return"
            /\ result.value.source
                  # call.client.origin \o "/?curid=" \o IntToStr(hit.pageid)
            /\ AnimalChainError(call.client, call.animal_name, call.net) = "" =>
                  /\ result.value.name = hit.title
                  /\ result.value.source
                        = "https://en.wikipedia.org/?curid=" \o IntToStr(hit.pageid)

C10_Witness ==
    /\ call.fn = "get_animal_speed"
    /\ call.client = RuWiki
    /\ Absent(call.net.s1) /\ Absent(call.net.s2)
    /\ call.net.s3 = [kind |-> "ok", search |-> <<[pageid |-> 100, title |-> "Cheetah (EN)"]>>]
    /\ Cardinality({k \in DOMAIN requests :
                       /\ requests[k].action = "extracts"
                       /\ requests[k].base_url = "https://en.wikipedia.org/w/api.php"}) = 2
    /\ result.kind = "return"
    /\ result.value.name = "Cheetah (EN)"
    /\ result.value.speed_m_s = RatInt(30)
    /\ result.value.source = "https://en.wikipedia.org/?curid=100"

(***************************************************************************)
(* C11: get_animal_speed issues its searches in a fixed order and stops at *)
(* the first hit: (1) the primary client with the name as given; (2) the   *)
(* primary client with the capitalized name, only if (1) was absent; (3)   *)
(* the English client with the capitalized name, only if (1) and (2) were  *)
(* absent and the primary client is not the English one.  Never more than  *)
(* three searches, and never more than two with an English primary client. *)
(***************************************************************************)
Searches == SelectSeq(requests, LAMBDA r : r.action = "search")

C11_SearchOrder ==
    (call.fn = "get_animal_speed" /\ result # NotCalled) =>
        LET primary == call.client.origin \o "/w/api.php"
            english == call.client.origin = "https://en.wikipedia.org"
            second == Absent(call.net.s1)
            third == second /\ Absent(call.net.s2) /\ ~english
            n == Len(Searches)
        IN  /\ n = (IF third THEN 3 ELSE IF second THEN 2 ELSE 1)
            /\ n <= 3 /\ (english => n <= 2)
            /\ \A k \in 1..n : Searches[k] = requests[k]
            /\ Searches[1].base_url = primary
            /\ Searches[1].srsearch = Str(call.animal_name)
            /\ Searches[1].resp = call.net.s1
            /\ second =>
                  /\ Searches[2].base_url = primary
                  /\ Searches[2].srsearch = "Cheetah"
                  /\ Searches[2].resp = call.net.s2
            /\ third =>
                  /\ Searches[3].base_url = "https://en.wikipedia.org/w/api.php"
                  /\ Searches[3].srsearch = "Cheetah"
                  /\ Searches[3].resp = call.net.s3

C11_Witness ==
    /\ call.fn = "get_animal_speed"
    /\ call.client = RuWiki
    /\ call.animal_name = <<"C", "H", "E", "E", "T", "A", "H">>
    /\ Absent(call.net.s1) /\ Absent(call.net.s2) /\ Hit(call.net.s3)
    /\ result # NotCalled
    /\ Len(Searches) = 3
    /\ Searches[1].srsearch = "CHEETAH"
    /\ Searches[3].srsearch = "Cheetah"

(***************************************************************************)
(* The inclusive ranges of the self-check, said on numerators and          *)
(* denominators: n/d in [lo, hi].  The time range starts at one half.      *)
(***************************************************************************)
TimeInRange(x) == 2 * x.n >= x.d /\ x.n <= 600 * x.d
LengthInRange(x) == x.n >= 20 * x.d /\ x.n <= 1000 * x.d
SpeedInRange(x) == x.n >= 5 * x.d /\ x.n <= 100 * x.d

StatusOf(in_range) == IF in_range THEN "ok" ELSE "fail"

\* The four steps every self-check returns first, and the flag, for a result.
ExpectedPassed(r) ==
    /\ TimeInRange(r.time_seconds)
    /\ LengthInRange(r.bridge.length_meters)
    /\ SpeedInRange(r.animal.speed_m_s)

ExpectedCheckSteps(r) ==
    << [description |-> "Proverka vremeni peresecheniya",
        data |-> [value |-> r.time_seconds, min |-> [n |-> 1, d |-> 2],
                  max |-> [n |-> 600, d |-> 1], units |-> "sekundy",
                  status |-> StatusOf(TimeInRange(r.time_seconds))]],
       [description |-> "Proverka dliny mosta",
        data |-> [value |-> r.bridge.length_meters, min |-> [n |-> 20, d |-> 1],
                  max |-> [n |-> 1000, d |-> 1], units |-> "metry",
                  status |-> StatusOf(LengthInRange(r.bridge.length_meters))]],
       [description |-> "Proverka skorosti geparda",
        data |-> [value |-> r.animal.speed_m_s, min |-> [n |-> 5, d |-> 1],
                  max |-> [n |-> 100, d |-> 1], units |-> "m/s",
                  status |-> StatusOf(SpeedInRange(r.animal.speed_m_s))]],
       [description |-> "Itog self-check",
        data |-> [ok |-> ExpectedPassed(r),
                  note |-> "Pri ok=False rezultat somnitelen. TODO: pereschitat s alternativnymi istochnikami pri neobhodimosti."]] >>

(***************************************************************************)
(* C12: self_check_result marks each of its three range checks "ok"        *)
(* exactly when the value lies in the inclusive range (time in [0.5, 600], *)
(* bridge length in [20, 1000], animal speed in [5, 100], endpoints        *)
(* included) and "fail" otherwise, and passed is true exactly when all     *)
(* three are "ok": time 8, length 200, speed 25 passes; time 1000 fails.   *)
(***************************************************************************)
C12_RangeChecks ==
    (call.fn = "self_check_result" /\ result # NotCalled) =>
        /\ result.kind = "return"
        /\ LET r == call.result
               steps == result.value.steps
               passed == result.value.passed
           IN  /\ Len(steps) >= 3
               /\ steps[1].data.value = r.time_seconds
               /\ steps[2].data.value = r.bridge.length_meters
               /\ steps[3].data.value = r.animal.speed_m_s
               /\ steps[1].data.status = "ok" <=> TimeInRange(r.time_seconds)
               /\ steps[2].data.status = "ok" <=> LengthInRange(r.bridge.length_meters)
               /\ steps[3].data.status = "ok" <=> SpeedInRange(r.animal.speed_m_s)
               /\ \A k \in 1..3 : steps[k].data.status \in {"ok", "fail"}
               /\ passed <=> \A k \in 1..3 : steps[k].data.status = "ok"
               /\ (/\ r.time_seconds = [n |-> 8, d |-> 1]
                   /\ r.bridge.length_meters = [n |-> 200, d |-> 1]
                   /\ r.animal.speed_m_s = [n |-> 25, d |-> 1]) => passed
               /\ r.time_seconds = [n |-> 1000, d |-> 1] =>
                      steps[1].data.status = "fail" /\ ~passed

\* All three values on an endpoint of their range.
C12_Witness ==
    /\ call.fn = "self_check_result"
    /\ call.result.time_seconds = [n |-> 1, d |-> 2]
    /\ call.result.bridge.length_meters = [n |-> 1000, d |-> 1]
    /\ call.result.animal.speed_m_s = [n |-> 5, d |-> 1]
    /\ result.kind = "return"
    /\ result.value.passed

(***************************************************************************)
(* C13: when an advisory model is supplied and obtaining it (get_model) or *)
(* invoking it raises, self_check_result still returns: the error is       *)
(* recorded as one extra, fifth step and is not propagated, and the passed *)
(* flag and the first four steps are what they are with no advisory model. *)
(***************************************************************************)
AdvisoryError(llm_client) ==
    IF llm_client.get_model.kind = "raise" THEN llm_client.get_model.msg
    ELSE IF llm_client.invoke.kind = "raise" THEN llm_client.invoke.msg
    ELSE ""

C13_AdvisoryErrorAbsorbed ==
    (call.fn = "self_check_result" /\ result # NotCalled) =>
        /\ call.llm_client = None =>
              /\ result.kind = "return"
              /\ result.value.passed = ExpectedPassed(call.result)
              /\ result.value.steps = ExpectedCheckSteps(call.result)
        /\ (call.llm_client # None /\ AdvisoryError(call.llm_client) # "") =>
              /\ result.kind = "return"
              /\ result.value.passed = ExpectedPassed(call.result)
              /\ result.value.steps =
                     ExpectedCheckSteps(call.result)
                         \o << [description |-> "LLM self-check failed",
                                data |-> [error |-> AdvisoryError(call.llm_client)]] >>

C13_Witness ==
    /\ call.fn = "self_check_result"
    /\ call.llm_client # None
    /\ call.llm_client.get_model.kind = "return"
    /\ call.llm_client.invoke = [kind |-> "raise", exc |-> "RuntimeError",
                                 msg |-> "connection refused"]
    /\ result.kind = "return"
    /\ Len(result.value.steps) = 5
    /\ result.value.steps[5].data = [error |-> "connection refused"]

(***************************************************************************)
(* C14: for both resolvers, the returned fact's source starts with         *)
(* "fallback:" if and only if an error ended the call's chain and was      *)
(* caught; a call in which search, summary fetch and parse succeed returns *)
(* the page URI (API origin + "/?curid=<pageId>") as source and the search *)
(* hit's title as name, never the fallback constants.                      *)
(***************************************************************************)
StartsWith(s, prefix) ==
    Len(s) >= Len(prefix) /\ SubSeq(s, 1, Len(prefix)) = prefix

EndsWith(s, suffix) ==
    Len(s) >= Len(suffix) /\ SubSeq(s, Len(s) - Len(suffix) + 1, Len(s)) = suffix

\* The error that ends the chain of the call under way, "" when none does.
ChainError ==
    IF call.fn = "get_bridge_info_big_stone_bridge" THEN BridgeChainError(call.net)
    ELSE AnimalChainError(call.client, call.animal_name, call.net)

\* The search answer that the call's fact comes from.
DecidingHit ==
    IF call.fn = "get_bridge_info_big_stone_bridge" THEN call.net.s1.search[1]
    ELSE DecidingSearch(call.client, call.net).search[1]

\* The origin of the client that answered the deciding search.
DecidingOrigin ==
    IF call.fn = "get_animal_speed" /\ Absent(call.net.s1) /\ Absent(call.net.s2)
    THEN "https://en.wikipedia.org"
    ELSE call.client.origin

C14_FallbackIffErrorCaught ==
    (call.fn \in {"get_bridge_info_big_stone_bridge", "get_animal_speed"}
        /\ result # NotCalled) =>
        /\ result.kind = "return"
        /\ StartsWith(result.value.source, "fallback:") <=> ChainError # ""
        /\ ChainError = "" =>
              /\ result.value.source
                    = DecidingOrigin \o "/?curid=" \o IntToStr(DecidingHit.pageid)
              /\ result.value.name = DecidingHit.title
              /\ ~EndsWith(result.value.name, "(fallback)")

\* The intro text has no length, the full body has: an inner ValueError was
\* handled by the retry, and the fact is the page's.
C14_Witness ==
    /\ call.fn = "get_bridge_info_big_stone_bridge"
    /\ call.client = RuWiki
    /\ call.net.s1 = [kind |-> "ok", search |-> <<[pageid |-> 7, title |-> "Gepard"]>>]
    /\ call.net.intro.kind = "ok" /\ call.net.intro.page # None
    /\ ~HasMarked({"cyrillic meter"}, call.net.intro)
    /\ result.kind = "return"
    /\ result.value.source = "https://ru.wikipedia.org/?curid=7"
    /\ result.value.length_meters = [n |-> 200, d |-> 1]

(***************************************************************************)
(* The crossing's facts, for the claims about the end-to-end run.          *)
(***************************************************************************)
IsFallback(fact) == StartsWith(fact.value.source, "fallback:")

Checked == call.fn = "run_agent" /\ result.check # None

(***************************************************************************)
(* C15 as stated: when the fallback fact is used, self_check_result on the *)
(* crossing computed from it gives status "fail" on the range check of the *)
(* fallback quantity (bridge length for a fallback bridge, animal speed    *)
(* for a fallback animal), so passed is false for every result built from  *)
(* a fallback fact.                                                        *)
(***************************************************************************)
C15_FallbackFailsSelfCheck ==
    Checked =>
        LET steps == result.check.value.steps
        IN  /\ IsFallback(result.bridge) => steps[2].data.status = "fail"
            /\ IsFallback(result.animal) => steps[3].data.status = "fail"
            /\ (IsFallback(result.bridge) \/ IsFallback(result.animal)) =>
                   ~result.check.value.passed

(***************************************************************************)
(* C15 amended: when the fallback fact is used, the range check of the     *)
(* fallback quantity is "ok" (487 m lies in [20, 1000], 25 m/s in          *)
(* [5, 100]); passed is then decided by the other quantity and the time,   *)
(* and is true when both facts are fallbacks (487 / 25 = 19.48 s).         *)
(***************************************************************************)
C15_FallbackPassesItsRangeCheck ==
    Checked =>
        LET steps == result.check.value.steps
            passed == result.check.value.passed
        IN  /\ IsFallback(result.bridge) =>
                  /\ steps[2].data.value = [n |-> 487, d |-> 1]
                  /\ steps[2].data.status = "ok"
                  /\ passed <=> (steps[1].data.status = "ok" /\ steps[3].data.status = "ok")
            /\ IsFallback(result.animal) =>
                  /\ steps[3].data.value = [n |-> 25, d |-> 1]
                  /\ steps[3].data.status = "ok"
                  /\ passed <=> (steps[1].data.status = "ok" /\ steps[2].data.status = "ok")
            /\ (IsFallback(result.bridge) /\ IsFallback(result.animal)) =>
                  /\ steps[1].data.value = [n |-> 487, d |-> 25]
                  /\ passed

C15_Witness ==
    /\ Checked
    /\ call.bridge_net.s1.kind = "timeout"
    /\ call.animal_net.s1.kind = "timeout"
    /\ IsFallback(result.bridge) /\ IsFallback(result.animal)
    /\ result.check.value.passed

(***************************************************************************)
(* C16: every AnimalSpeed returned by get_animal_speed, on the success     *)
(* path and on the fallback path, for every page text, has speed_m_s > 0;  *)
(* so estimate_crossing_time on the resolver's facts never raises the      *)
(* validation error and the run never fails because of a resolved speed.   *)
(***************************************************************************)
C16_ResolvedSpeedPositive ==
    call.fn = "run_agent" =>
        /\ result.animal # None =>
              /\ result.animal.kind = "return"
              /\ result.animal.value.speed_m_s.n > 0
        /\ result.estimate # None => result.estimate.kind = "return"

(***************************************************************************)
(* C17: every BridgeInfo returned by get_bridge_info_big_stone_bridge, for *)
(* every page text, has length_meters > 0, and so every ReasoningResult    *)
(* computed from resolver outputs has time_seconds > 0.                    *)
(***************************************************************************)
C17_ResolvedLengthPositive ==
    call.fn = "run_agent" =>
        /\ result.bridge # None =>
              /\ result.bridge.kind = "return"
              /\ result.bridge.value.length_meters.n > 0
        /\ (result.estimate # None /\ result.estimate.kind = "return") =>
              result.estimate.value.time_seconds.n > 0

Fetches == SelectSeq(requests, LAMBDA r : r.action = "extracts")

\* A summary fetch that returned a page.
Fetched(resp) == resp.kind = "ok" /\ resp.page # None

\* The unit markers the call under way looks for.
CallMarkers ==
    IF call.fn = "get_bridge_info_big_stone_bridge" THEN {"cyrillic meter"} ELSE {"speed"}

\* The call's deciding search found a page.
CallHit ==
    IF call.fn = "get_bridge_info_big_stone_bridge" THEN Hit(call.net.s1)
    ELSE Hit(DecidingSearch(call.client, call.net))

\* The intro fetch returned a page whose text holds no marked number.
IntroUnparsed ==
    Fetched(call.net.intro) /\ ~HasMarked(CallMarkers, call.net.intro)

(***************************************************************************)
(* C20: in each resolver, after a search hit the first summary fetch is    *)
(* intro-only; a second, full-body fetch of the same page id is made if    *)
(* and only if the intro fetch succeeded and parsing its text failed (so   *)
(* none when the intro text parses); a call never makes more than two      *)
(* summary fetches, and a parse failure on the full-body text leads to the *)
(* fallback fact without any further request.                              *)
(***************************************************************************)
C20_FetchOrder ==
    (call.fn \in {"get_bridge_info_big_stone_bridge", "get_animal_speed"}
        /\ result # NotCalled) =>
        /\ Len(Fetches) <= 2
        /\ ~CallHit => Fetches = <<>>
        /\ CallHit =>
              /\ Len(Fetches) >= 1
              /\ Fetches[1].exintro = TRUE
              /\ Fetches[1].pageids = DecidingHit.pageid
              /\ Fetches[1].resp = call.net.intro
              /\ Len(Fetches) = 2 <=> IntroUnparsed
        /\ Len(Fetches) = 2 =>
              /\ Fetches[2].exintro = FALSE
              /\ Fetches[2].pageids = Fetches[1].pageids
              /\ Fetches[2].base_url = Fetches[1].base_url
              /\ Fetches[2].resp = call.net.full
              /\ requests[Len(requests)] = Fetches[2]
              /\ (Fetched(call.net.full) /\ ~HasMarked(CallMarkers, call.net.full)) =>
                    IsFallback(result)

\* The intro text has no speed, the full text is fetched and has none either.
C20_Witness ==
    /\ call.fn = "get_animal_speed"
    /\ result # NotCalled
    /\ CallHit
    /\ IntroUnparsed
    /\ Fetched(call.net.full)
    /\ ~HasMarked(CallMarkers, call.net.full)
    /\ Len(Fetches) = 2
    /\ IsFallback(result)


\* The fact get_animal_speed returns from its handler for the call's name.
AnimalFallback(msg) ==
    [kind |-> "return",
     value |-> [name |-> Str(call.animal_name) \o " (fallback)",
                speed_km_h |-> [n |-> 90, d |-> 1],
                speed_m_s |-> [n |-> 25, d |-> 1],
                source |-> "fallback:" \o msg]]

(***************************************************************************)
(* C21: in get_animal_speed the language fallback is triggered by absence  *)
(* only, never by a retrieval error: a search that raises, on the primary  *)
(* client or on the English one, is the last request the call makes (no    *)
(* later search, no summary fetch) and the fallback AnimalSpeed carrying   *)
(* the retrieval error is returned.                                        *)
(***************************************************************************)
C21_ErrorStopsSearches ==
    (call.fn = "get_animal_speed" /\ result # NotCalled) =>
        \A k \in 1..Len(requests) :
            (requests[k].action = "search" /\ Failed(requests[k].resp)) =>
                /\ k = Len(requests)
                /\ result = AnimalFallback("Failed to search Wikipedia")

\* The capitalized search on the primary client times out while the English
\* client would have found the page.
C21_Witness ==
    /\ call.fn = "get_animal_speed"
    /\ call.client = RuWiki
    /\ Absent(call.net.s1) /\ Failed(call.net.s2) /\ Hit(call.net.s3)
    /\ Len(requests) = 2
    /\ result = AnimalFallback("Failed to search Wikipedia")


\* The descriptions of the steps self_check_result returned, in order.
CheckDescriptions ==
    [k \in DOMAIN result.value.steps |-> result.value.steps[k].description]

(***************************************************************************)
(* C22: self_check_result returns its steps in a fixed order: the time     *)
(* check, the bridge-length check, the animal-speed check, then the        *)
(* summary step recording passed, appended whether the checks pass or      *)
(* fail; with an advisory model exactly one more step follows the summary, *)
(* its opinion or its recorded error: 4 steps without a model, 5 with one. *)
(***************************************************************************)
C22_StepOrder ==
    (call.fn = "self_check_result" /\ result # NotCalled) =>
        /\ result.kind = "return"
        /\ Len(result.value.steps) = (IF call.llm_client = None THEN 4 ELSE 5)
        /\ SubSeq(CheckDescriptions, 1, 4) =
              << "Proverka vremeni peresecheniya", "Proverka dliny mosta",
                 "Proverka skorosti geparda", "Itog self-check" >>
        /\ result.value.steps[4].data.ok = result.value.passed
        /\ call.llm_client # None =>
              /\ CheckDescriptions[5] =
                    (IF AdvisoryError(call.llm_client) = ""
                     THEN "LLM self-check (opinion)" ELSE "LLM self-check failed")
              /\ AdvisoryError(call.llm_client) = "" =>
                    result.value.steps[5].data = [comment |-> call.llm_client.invoke.value]

\* A speed out of range with an advisory model that answers: the summary
\* records the failure and the opinion follows it.
C22_Witness ==
    /\ call.fn = "self_check_result"
    /\ call.result.animal.speed_m_s = [n |-> 201, d |-> 2]
    /\ call.llm_client # None
    /\ call.llm_client.invoke = [kind |-> "return", value |-> "warning"]
    /\ result.kind = "return"
    /\ ~result.value.passed
    /\ Len(result.value.steps) = 5
    /\ result.value.steps[4].data.ok = FALSE
    /\ result.value.steps[5].description = "LLM self-check (opinion)"


(***************************************************************************)
(* run_agent's record, read without the model's own tests: what the cache  *)
(* holds, whether the request is over, and what it ended with.             *)
(***************************************************************************)
InAgent == call.fn = "run_agent" /\ result.kind = "agent"
Cached(key) == key \in DOMAIN result.tools_cache
BothCached == Cached("bridge") /\ Cached("animal")
AgentDone == InAgent /\ result.pc = "done"
AgentReturned == AgentDone /\ result.returned.kind = "return"

\* The step is the start of an executor invocation.
InvokeStep == result'.kind = "agent" /\ result'.attempt = result.attempt + 1

\* The step is the end of an invocation that raised.
RaiseStep ==
    /\ result.pc = "invoking" /\ result'.pc # "invoking"
    /\ result'.output # None /\ "error" \in DOMAIN result'.output

(***************************************************************************)
(* C23: run_agent invokes the executor at most max_tool_retries times, and *)
(* again only while the bridge fact or the animal fact is missing from the *)
(* cache; an exception of the executor is a failed attempt, not the end of *)
(* the request; if a fact is still missing after the last attempt it       *)
(* raises RuntimeError without calling estimate_crossing_time or           *)
(* self_check_result, and otherwise it goes on to the computation.         *)
(***************************************************************************)
C23_BoundedRetries ==
    /\ [](InAgent =>
            /\ result.attempt <= call.max_tool_retries
            /\ (AgentDone /\ ~BothCached) =>
                  /\ result.attempt = call.max_tool_retries
                  /\ result.returned.kind = "raise"
                  /\ result.returned.exc = "RuntimeError"
                  /\ StartsWith(result.returned.msg,
                                "Agent did not call required tools after retries.")
                  /\ result.estimate = None /\ result.check = None
            /\ (AgentDone /\ BothCached) =>
                  /\ result.estimate # None
                  /\ result.estimate.kind = "return" => result.check # None)
    /\ [][InAgent =>
            /\ InvokeStep => (~BothCached /\ result.attempt < call.max_tool_retries)
            /\ RaiseStep =>
                  /\ result'.pc = "loop" /\ result'.returned = None
                  /\ result'.tools_cache = result.tools_cache
                  /\ result'.attempt = result.attempt]_vars

\* Three attempts, the last error kept, the bridge resolved but no animal.
C23_Witness ==
    /\ AgentDone
    /\ call.max_tool_retries = 3 /\ result.attempt = 3
    /\ result.last_error # None
    /\ Cached("bridge") /\ ~Cached("animal")
    /\ result.returned =
          [kind |-> "raise", exc |-> "RuntimeError",
           msg |-> "Agent did not call required tools after retries. Bridge or animal data is missing. Poslednyaya oshibka: model unavailable"]
    /\ result.estimate = None


\* Two animal names that differ at most in the case of their letters.
SameAnimal(a, b) ==
    /\ Len(a) = Len(b)
    /\ \A k \in 1..Len(a) : Lower(a[k]) = Lower(b[k])

\* The facts the resolvers produced in the request under way.
ResolvedFacts == {requests[k].fact : k \in 1..Len(requests)}

(***************************************************************************)
(* C24: within one run_agent request the cache memoizes the resolved facts *)
(* across tool calls and attempts: get_bridge_info_big_stone_bridge is     *)
(* called at most once and get_animal_speed at most once per animal name   *)
(* compared case-insensitively, however often the tools are invoked; every *)
(* cached fact was resolved in this request, and a new request starts with *)
(* an empty cache.                                                         *)
(***************************************************************************)
C24_CacheMemoizesPerRequest ==
    InAgent =>
        /\ \A j, k \in 1..Len(requests) :
              (j # k /\ requests[j].fn = requests[k].fn) =>
                  /\ requests[j].fn = "get_animal_speed"
                  /\ ~SameAnimal(requests[j].animal, requests[k].animal)
        /\ \A key \in DOMAIN result.tools_cache : result.tools_cache[key] \in ResolvedFacts
        /\ Cached("bridge") <=>
              \E k \in 1..Len(requests) : requests[k].fn = "get_bridge_info_big_stone_bridge"
        /\ \A a \in AgentAnimals :
              Cached("animal:" \o Str([k \in 1..Len(a) |-> Lower(a[k])])) <=>
                  \E k \in 1..Len(requests) :
                      requests[k].fn = "get_animal_speed" /\ SameAnimal(requests[k].animal, a)
        /\ (result.attempt = 0 /\ result.pc = "loop") =>
              (DOMAIN result.tools_cache = {} /\ requests = <<>>)

\* In a later request "Cheetah" was resolved, and "cheetah" was then served
\* from the cache with the fact of "Cheetah".
C24_Witness ==
    /\ InAgent /\ result.repeated
    /\ Len(requests) = 1
    /\ requests[1].fn = "get_animal_speed"
    /\ requests[1].animal = <<"C", "h", "e", "e", "t", "a", "h">>
    /\ result.last_tool # None
    /\ result.last_tool.animal = <<"c", "h", "e", "e", "t", "a", "h">>
    /\ result.last_tool.cached
    /\ result.last_tool.animal_data = requests[1].fact
    /\ result.attempt = 2


\* The descriptions of the steps of the result run_agent returned, in order.
ReturnedDescriptions ==
    [k \in DOMAIN result.returned.value.steps |->
        result.returned.value.steps[k].description]

AnimalCalls == SelectSeq(requests, LAMBDA r : r.fn = "get_animal_speed")

(***************************************************************************)
(* C27: when the animal tool is invoked for several animal names during    *)
(* one run_agent request, in one attempt or across attempts, the animal of *)
(* the returned ReasoningResult is the fact of the most recent invocation  *)
(* of the animal tool, also when that invocation was served from the       *)
(* cache, and it is a fact get_animal_speed produced in this request.      *)
(***************************************************************************)
C27_LatestAnimalWins ==
    /\ (InAgent /\ result.last_tool # None) =>
          /\ Cached("animal")
          /\ result.tools_cache["animal"] = result.last_tool.animal_data
          /\ \E k \in 1..Len(AnimalCalls) :
                /\ AnimalCalls[k].fact = result.last_tool.animal_data
                /\ SameAnimal(AnimalCalls[k].animal, result.last_tool.animal)
    /\ (InAgent /\ result.last_tool = None) => ~Cached("animal")
    /\ AgentReturned =>
          /\ result.last_tool # None
          /\ result.returned.value.animal = result.last_tool.animal_data

\* "Cheetah" was resolved, then "Cat"; the tool was then invoked for "cheetah"
\* and served from the cache, and the returned animal is that of "Cheetah".
C27_Witness ==
    /\ AgentReturned
    /\ Len(AnimalCalls) = 2
    /\ AnimalCalls[1].animal = <<"C", "h", "e", "e", "t", "a", "h">>
    /\ AnimalCalls[2].animal = <<"C", "a", "t">>
    /\ AnimalCalls[1].fact # AnimalCalls[2].fact
    /\ result.last_tool.animal = <<"c", "h", "e", "e", "t", "a", "h">>
    /\ result.last_tool.cached
    /\ result.returned.value.animal = AnimalCalls[1].fact
    /\ result.attempt = 3


(***************************************************************************)
(* C26: CheetahAgentExecutor.execute enqueues exactly one message for      *)
(* every request: the rendered sentence with the two sources when          *)
(* run_agent returns a result, an error text when run_agent raises; the    *)
(* exception never escapes.  cancel enqueues nothing and leaves the queue  *)
(* as it was.                                                              *)
(***************************************************************************)
C26_OneMessagePerRequest ==
    (call.fn = "CheetahAgentExecutor" /\ result.kind = "a2a") =>
        \A k \in 1..Len(result.served) :
            LET served == result.served[k]
                n == Len(served.before)
            IN  /\ served.ended = [kind |-> "return", value |-> None]
                /\ served.method = "cancel" => served.after = served.before
                /\ served.method = "execute" =>
                      /\ Len(served.after) = n + 1
                      /\ SubSeq(served.after, 1, n) = served.before
                      /\ served.after[n + 1].role = "agent"
                      /\ served.run.kind = "return" =>
                            /\ StartsWith(served.after[n + 1].text,
                                          served.run.value.animal.name \o " peresekaet "
                                              \o served.run.value.bridge.name \o " dlinoj ")
                            /\ EndsWith(served.after[n + 1].text,
                                        "Istochniki:\n- Most: "
                                            \o served.run.value.bridge.source
                                            \o "\n- Zhivotnoe: "
                                            \o served.run.value.animal.source)
                      /\ served.run.kind = "raise" =>
                            /\ StartsWith(served.after[n + 1].text,
                                          "Oshibka pri vypolnenii agenta: ")
                            /\ EndsWith(served.after[n + 1].text, served.run.msg \o "')")

\* run_agent raised because no tool was called, and one error message was
\* enqueued behind the message already in the queue.
C26_Witness ==
    /\ call.fn = "CheetahAgentExecutor" /\ result.kind = "a2a"
    /\ Len(result.served) = 1
    /\ result.served[1].method = "execute"
    /\ result.served[1].run.kind = "raise"
    /\ result.served[1].run.exc = "RuntimeError"
    /\ Len(result.served[1].before) = 1
    /\ Len(result.served[1].after) = 2
    /\ result.served[1].after[2].text =
          "Oshibka pri vypolnenii agenta: RuntimeError('Agent did not call required tools after retries. Bridge or animal data is missing.')"


(***************************************************************************)
(* C28: in every string format_seconds produces for s >= 0 the seconds     *)
(* shown are strictly below 60.0: a value under one minute is never shown  *)
(* as "60.0" seconds, and in the minutes-and-seconds form the remainder is *)
(* never shown as "60.0" (for instance s = 59.96 and s = 119.97).          *)
(***************************************************************************)
C28_ShownSecondsBelowSixty ==
    (call.fn = "format_seconds" /\ result # NotCalled /\ call.seconds.n >= 0) =>
        /\ result.kind = "return"
        /\ ~EndsWith(result.value, "60.0 sekund")

\* A letter: a character that is no digit, whitespace or punctuation.
IsLetter(c) == ~IsDigit(c) /\ ~IsSpace(c) /\ c \notin {".", ",", "/"}

\* The meter unit itself stands in t at k: the word for meter (which may go
\* on with its ending), or the abbreviation with no letter after it.
MeterUnitAt(t, k) ==
    \/ LiteralAt(t, k, <<"ru_m", "ru_e", "ru_t", "ru_r">>)
    \/ /\ LiteralAt(t, k, <<"ru_m">>)
       /\ k + 1 <= Len(t) => ~IsLetter(t[k + 1])

\* The values of the numbers of t that the meter unit itself follows.
MeterValues(t) ==
    {NumberValue(SubSeq(t, p[1], p[2])) :
        p \in {q \in MarkedNumbers({"cyrillic meter"}, t) :
                  \E k \in q[2] + 1..Len(t) :
                      AllSpace(t, q[2] + 1, k - 1) /\ MeterUnitAt(t, k)}}

(***************************************************************************)
(* C29: _parse_length_meters counts a number as a length only when the     *)
(* marker after it is the meter unit itself (the abbreviation standing     *)
(* alone, or the word for meter): a number followed by a longer word that  *)
(* merely starts with the unit's letter, as in "5 minut" or "1938 most"    *)
(* (Cyrillic), is not counted and cannot become the returned maximum.      *)
(***************************************************************************)
C29_OnlyMeterUnitCounts ==
    (call.fn = "_parse_length_meters" /\ result # NotCalled) =>
        IsMaxOrNoMatch(result, MeterValues(call.text),
                       "Ne udalos izvlech dlinu mosta iz teksta")

=============================================================================
